---- MODULE Spec2Model ----
(***************************************************************************)
(* Model of the PersonalAssistant actor (src/unnamed/part_002): one        *)
(* Durable Object serving one user's WebSocket connections, its in-memory  *)
(* AgentState, the blob it persists under the storage key 'state', and the *)
(* D1 conversations table it appends to and reloads from.                  *)
(*                                                                         *)
(* Fields that no handler reads are left out of the records: a session's   *)
(* connectedAt, a message's metadata and in-memory timestamp, and          *)
(* AgentState.lastActivity, which is only ever written, and always         *)
(* immediately before saveState.  A message's content is kept only as far  *)
(* as the code tells contents apart: what the user typed, the backend's    *)
(* text, and the canned apologies.                                         *)
(*                                                                         *)
(* Handlers are async functions.  A handler is modelled as one action per  *)
(* stretch of code between two awaits on external I/O (D1, the model       *)
(* backend); awaits on the actor's own storage close the input gate and    *)
(* are part of the action that issues them.  Events of different sockets   *)
(* may interleave at the external awaits; the events of one socket are     *)
(* delivered one at a time.                                                *)
(*                                                                         *)
(* Two specifications share the actions: Spec exercises the connection     *)
(* registry and the persisted state with every event except chat turns,    *)
(* SpecChat exercises chat turns and the conversation log.                 *)
(***************************************************************************)
EXTENDS Integers, Sequences, FiniteSets, TLC

(* ---------------------------- bounds ----------------------------------- *)
MaxSockets == 1
MaxChats == 1
MaxNow == 1000
MaxTasks == 1
MaxRuns == 1
MaxRetries == 1
MaxSends == 2
MaxHours == 1
MaxHistory == 2
MaxSnippets == 2

(* ------------------------ program constants ---------------------------- *)
HistoryLimit == 50
MsPerSec == 1000
DaySeconds == 86400
RetentionSeconds == 2592000
EmailMaxCalls == 10
EmailWindowMs == 3600000
MaxSubjectLength == 200
MAX_BODY_LENGTH == 10240
CharsPerToken == 4
DefaultMaxTokens == 4000
DefaultMaxMessages == 50
RagHeaderLength == 38

Sockets == 1..MaxSockets
UserIds == {"alice", "bob"}
MsgTypes == {"chat", "ping", "unknown", "binary", "malformed"}

VARIABLES
  actorPc,     \* "down" (evicted), "loading" (constructor ran, loadState pending), "ready"
  state,       \* this.state : AgentState
  userId,      \* this.userId
  sessions,    \* this.sessions : Map<WebSocket, WebSocketSession>
  stored,      \* ctx.storage key 'state': <<>> when absent, <<blob>> otherwise
  sock,        \* platform side of each transport handle
  pc,          \* position of the message handler running for each socket
  cur,         \* the message the in-flight handler is saving
  log,         \* D1 table conversations, in insertion (rowid) order
  now,         \* Date.now(), in milliseconds
  reply,       \* what the step last taken answered to its caller ("" if nothing)
  calls,       \* the requests the step last taken sent to the index and the model backend
  users,       \* D1 table users: the ids that have a row
  tasks,       \* D1 table tasks: task id -> row
  runs,        \* the instances of the TaskWorkflow binding, in creation order
  runtime,     \* which handle features the runtime provides
  rateLimits,  \* the actor's rate limiter: action -> timestamps of the recorded calls
  fetching,    \* the sendEmail executions awaiting the email API's response
  built        \* the last call of MemoryManager.buildContext: <<>>, or <<its arguments and result>>

vars == <<actorPc, state, userId, sessions, stored, sock, pc, cur, log, now, reply, calls,
          runtime, users, tasks, runs, rateLimits, fetching, built>>

(* ----------------------------- helpers --------------------------------- *)
\* JavaScript's a || b on strings: the empty string is falsy.
Or(a, b) == IF a # "" THEN a ELSE b

\* The AgentState the constructor installs.
DefaultState ==
  [userId |-> "", conversationHistory |-> <<>>, activeWebSockets |-> 0]

\* A handle the platform does not hold.  hibernated records that a held
\* handle has outlived an eviction of the actor's memory.
FreeSock == [live |-> FALSE, attachment |-> <<>>, tags |-> <<>>, hibernated |-> FALSE]

\* Math.floor(Date.now() / 1000)
UnixSeconds(t) == t \div MsPerSec

Reverse(s) == [i \in 1..Len(s) |-> s[Len(s) + 1 - i]]

(* -------------------- D1: the conversations table ---------------------- *)
saveMessageToD1_Dropped(table, uid, message, t) == table

\* INSERT INTO conversations: the row carries the insertion time in seconds,
\* not the message's own millisecond timestamp.
saveMessageToD1(table, uid, message, t) ==
  Append(table, [id |-> message.id, user_id |-> uid, role |-> message.role,
                 content |-> message.content, timestamp |-> UnixSeconds(t)])

\* Every order of the row indexes in S that ORDER BY timestamp DESC permits:
\* rows of equal timestamp may come out in any relative order.
RECURSIVE OrderByTimestampDesc(_, _)
OrderByTimestampDesc(rows, S) ==
  IF S = {} THEN {<<>>}
  ELSE UNION { { <<i>> \o rest : rest \in OrderByTimestampDesc(rows, S \ {i}) } :
               i \in { j \in S : \A k \in S : rows[j].timestamp >= rows[k].timestamp } }

Take(s, n) == SubSeq(s, 1, IF Len(s) < n THEN Len(s) ELSE n)

\* The results loadConversationHistory can return: SELECT ... WHERE user_id = ?
\* ORDER BY timestamp DESC LIMIT ?, reversed.
loadConversationHistory(table, uid, limit) ==
  LET rows == SelectSeq(table, LAMBDA r : r.user_id = uid)
  IN { LET picked == Reverse(Take(order, limit))
       IN [i \in 1..Len(picked) |->
             [id |-> rows[picked[i]].id, role |-> rows[picked[i]].role,
              content |-> rows[picked[i]].content]]
       : order \in OrderByTimestampDesc(rows, 1..Len(rows)) }

(* --------------------- session identity lookup ------------------------- *)
RecoverUserId_Fallback(s) ==
  LET tagged == Or(IF Len(s.tags) > 0 THEN s.tags[1] ELSE "", userId)
  IN IF Len(s.attachment) > 0 THEN Or(s.attachment[1].userId, tagged) ELSE tagged

\* webSocketMessage's recovery: tags[0], overridden by attachment.userId.
RecoverUserId(s) ==
  LET tagged == IF Len(s.tags) > 0 THEN s.tags[1] ELSE ""
  IN IF Len(s.attachment) > 0 THEN Or(s.attachment[1].userId, tagged) ELSE tagged

RebuildUserId_Undefined(s, uid) == ""

\* rebuildSessions' lookup: tags[0] || this.userId, overridden by attachment.userId.
RebuildUserId(s, uid) ==
  LET tagged == Or(IF Len(s.tags) > 0 THEN s.tags[1] ELSE "", uid)
  IN IF Len(s.attachment) > 0 THEN Or(s.attachment[1].userId, tagged) ELSE tagged

\* ctx.getWebSockets(): the handles the platform still holds for this actor.
getWebSockets == { w \in Sockets : sock[w].live }

rebuildSessions(uid) ==
  [w \in getWebSockets |-> [userId |-> RebuildUserId(sock[w], uid)]]

(* --------------------------- activation -------------------------------- *)
Init ==
  /\ actorPc = "down"
  /\ state = DefaultState
  /\ userId = ""
  /\ sessions = <<>>
  /\ stored = <<>>
  /\ sock = [w \in Sockets |-> FreeSock]
  /\ pc = [w \in Sockets |-> "idle"]
  /\ cur = [w \in Sockets |-> [id |-> 0, role |-> "", content |-> ""]]
  /\ log = <<>>
  /\ now = 0
  /\ reply = ""
  /\ calls = <<>>
  /\ users = {}
  /\ tasks = <<>>
  /\ runs = <<>>
  /\ runtime \in [attachments : BOOLEAN, tags : BOOLEAN]
  /\ rateLimits = [a \in {"email"} |-> <<>>]
  /\ fetching = 0
  /\ built = <<>>

InputGateOpen_NoBarrier == actorPc \in {"loading", "ready"}

\* ctx.blockConcurrencyWhile: no event is delivered until loadState is done.
InputGateOpen == actorPc = "ready"

\* constructor: fresh in-memory fields, loadState scheduled behind the gate.
Construct ==
  /\ actorPc = "down"
  /\ actorPc' = "loading"
  /\ state' = DefaultState
  /\ userId' = ""
  /\ sessions' = <<>>
  /\ reply' = ""
  /\ calls' = <<>>
  /\ UNCHANGED <<stored, sock, pc, cur, log, now, runtime, rateLimits, fetching, built, users, tasks, runs>>

LoadedState_Fresh(blob, history, live) ==
  [DefaultState EXCEPT !.conversationHistory = history, !.activeWebSockets = live]

\* The AgentState loadState leaves in memory, given the reloaded history.
LoadedState(blob, history, live) ==
  [blob EXCEPT !.conversationHistory = history, !.activeWebSockets = live]

loadState ==
  /\ actorPc = "loading"
  /\ actorPc' = "ready"
  /\ IF Len(stored) > 0
     THEN /\ userId' = stored[1].userId
          /\ sessions' = rebuildSessions(stored[1].userId)
          /\ \E history \in (IF stored[1].userId # ""
                             THEN loadConversationHistory(log, stored[1].userId, HistoryLimit)
                             ELSE {stored[1].conversationHistory}) :
               state' = LoadedState(stored[1], history, Cardinality(getWebSockets))
     ELSE UNCHANGED <<state, userId, sessions>>
  /\ reply' = ""
  /\ calls' = <<>>
  /\ UNCHANGED <<stored, sock, pc, cur, log, now, runtime, rateLimits, fetching, built, users, tasks, runs>>

\* Save state to Durable Object storage: ctx.storage.put('state', this.state).
saveState(st) == <<st>>

(* --------------------------- connections ------------------------------- *)
\* this.state.userId || userId
canonicalUserId(st, claimed) == Or(st.userId, claimed)

UserIdMismatch_Never(st, claimed) == FALSE

\* The 409 test of handleWebSocketUpgrade.
UserIdMismatch(st, claimed) == st.userId # "" /\ st.userId # claimed

\* What the platform keeps on an accepted handle.  serializeAttachment is
\* called optionally (?.) and the handle's tags are read through an untyped
\* property (ws.tags || []), so either may be missing on a given runtime.
AcceptedHandle(uid) ==
  [live |-> TRUE,
   attachment |-> IF runtime.attachments THEN <<[userId |-> uid]>> ELSE <<>>,
   tags |-> IF runtime.tags THEN <<uid>> ELSE <<>>,
   hibernated |-> FALSE]

\* new WebSocketPair(): a handle the platform is not holding yet.
NewServer == CHOOSE w \in Sockets : ~sock[w].live /\ \A v \in Sockets : ~sock[v].live => w <= v

handleWebSocketUpgrade(claimed) ==
  /\ InputGateOpen
  /\ IF claimed = ""
     THEN /\ reply' = "400 userId is required"
          /\ UNCHANGED <<state, userId, sessions, stored, sock>>
     ELSE IF UserIdMismatch(state, claimed)
     THEN /\ reply' = "409 userId mismatch"
          /\ UNCHANGED <<state, userId, sessions, stored, sock>>
     ELSE LET server == NewServer IN
          /\ \E w \in Sockets : ~sock[w].live
          /\ sock' = [sock EXCEPT ![server] = AcceptedHandle(canonicalUserId(state, claimed))]
          /\ sessions' = [w \in DOMAIN sessions \cup {server} |->
                            IF w = server
                            THEN [userId |-> canonicalUserId(state, claimed)]
                            ELSE sessions[w]]
          /\ userId' = canonicalUserId(state, claimed)
          /\ state' = [state EXCEPT !.userId = canonicalUserId(state, claimed),
                                    !.activeWebSockets = Cardinality(DOMAIN sessions')]
          /\ stored' = saveState(state')
          /\ reply' = "101 connected"
  /\ calls' = <<>>
  /\ UNCHANGED <<actorPc, pc, cur, log, now, runtime, rateLimits, fetching, built, users, tasks, runs>>

webSocketClose(ws) ==
  /\ InputGateOpen
  /\ sock[ws].live
  /\ pc[ws] = "idle"
  /\ sessions' = [w \in DOMAIN sessions \ {ws} |-> sessions[w]]
  /\ state' = IF ws \in DOMAIN sessions
              THEN [state EXCEPT !.activeWebSockets = Cardinality(DOMAIN sessions')]
              ELSE state
  /\ stored' = saveState(state')
  /\ sock' = [sock EXCEPT ![ws] = FreeSock]
  /\ reply' = ""
  /\ calls' = <<>>
  /\ UNCHANGED <<actorPc, userId, pc, cur, log, now, runtime, rateLimits, fetching, built, users, tasks, runs>>

\* A transport error that is not a disconnection: the handle stays attached.
webSocketError(ws) ==
  /\ InputGateOpen
  /\ sock[ws].live
  /\ pc[ws] = "idle"
  /\ sessions' = [w \in DOMAIN sessions \ {ws} |-> sessions[w]]
  /\ state' = IF ws \in DOMAIN sessions
              THEN [state EXCEPT !.activeWebSockets = Cardinality(DOMAIN sessions')]
              ELSE state
  /\ reply' = ""
  /\ calls' = <<>>
  /\ UNCHANGED <<actorPc, userId, stored, sock, pc, cur, log, now, runtime, rateLimits, fetching, built, users, tasks, runs>>

(* ------------------------- D1: the users table ------------------------- *)
\* SELECT, then INSERT if the user has no row; a D1 error is logged and
\* swallowed, so the caller goes on whether or not the row exists.
ensureUser(table, uid, d1ok) == IF d1ok THEN table \cup {uid} ELSE table

\* The users table after ensureUser, D1 answering or not.
ensureUserOutcomes(table, uid) == { ensureUser(table, uid, d1ok) : d1ok \in BOOLEAN }

(* ------------------------ the completion backend ----------------------- *)
\* How env.AI.run can end: a text, a rejection, no answer within 25 s, or an
\* answer whose text is empty.
Outcomes == {"ok", "error", "rate limit", "timeout", "empty"}
Retrievals == {"throws", "none", "snippets"}

\* What generateLLMResponse's try block returns or throws for one call.
Completion(outcome) ==
  CASE outcome = "ok" -> [thrown |-> "", text |-> "response"]
    [] outcome = "timeout" -> [thrown |-> "LLM timeout after 25s", text |-> ""]
    [] outcome = "empty" -> [thrown |-> "Empty response from LLM", text |-> ""]
    [] outcome = "rate limit" -> [thrown |-> "429", text |-> ""]
    [] OTHER -> [thrown |-> "backend error", text |-> ""]

\* generateLLMResponse's catch block: the apology chosen from the error text.
Apology(thrown) ==
  CASE thrown = "LLM timeout after 25s" ->
         "I apologize, but my response took too long. Please try again."
    [] thrown = "429" ->
         "I am experiencing high demand. Please try again in a moment."
    [] OTHER ->
         "I encountered an error processing your message. Please try again."

Apologies == { Apology(Completion(o).thrown) : o \in Outcomes \ {"ok"} }

\* generateLLMResponse: one completion request over the plain context.  It
\* never throws.
generateLLMResponse(outcome) ==
  [calls |-> << [to |-> "model", prompt |-> "plain", outcome |-> outcome] >>,
   text |-> IF Completion(outcome).thrown = ""
            THEN Completion(outcome).text
            ELSE Apology(Completion(outcome).thrown)]

UsesRetrieval_Always(ragEnabled, retrieval) == ragEnabled

\* Whether generateLLMResponseWithRAG gets to build the retrieval prompt.
UsesRetrieval(ragEnabled, retrieval) == ragEnabled /\ retrieval = "snippets"

\* generateLLMResponseWithRAG: with RAG switched off, with no snippet found,
\* or with the search throwing, the plain path answers; otherwise one request
\* carries the retrieval message, and if that request throws the catch block
\* runs the plain path as well.
generateLLMResponseWithRAG(ragEnabled, retrieval, first, second) ==
  LET search == IF ragEnabled
                THEN << [to |-> "index", prompt |-> "", outcome |-> retrieval] >>
                ELSE <<>>
      augmented == << [to |-> "model", prompt |-> "retrieval", outcome |-> first] >>
  IN IF ~UsesRetrieval(ragEnabled, retrieval)
     THEN [calls |-> search \o generateLLMResponse(first).calls,
           text |-> generateLLMResponse(first).text]
     ELSE IF Completion(first).thrown = ""
     THEN [calls |-> search \o augmented, text |-> Completion(first).text]
     ELSE [calls |-> search \o augmented \o generateLLMResponse(second).calls,
           text |-> generateLLMResponse(second).text]

(* ----------------------------- messages -------------------------------- *)
\* crypto.randomUUID(): ids are unique.  The n-th chat turn's user message
\* gets id 2n-1 and its assistant reply 2n; a turn number is free again once
\* no record anywhere carries its ids.
UserMessageId(n) == 2 * n - 1
ReplyId(id) == id + 1
IdsOf(messages) == { messages[i].id : i \in 1..Len(messages) }
UsedIds ==
  IdsOf(state.conversationHistory) \cup IdsOf(log) \cup { cur[w].id : w \in Sockets }
    \cup (IF Len(stored) > 0 THEN IdsOf(stored[1].conversationHistory) ELSE {})
FreeChats ==
  { n \in 1..MaxChats : UserMessageId(n) \notin UsedIds /\ ReplyId(UserMessageId(n)) \notin UsedIds }
NewChat == CHOOSE n \in FreeChats : \A m \in FreeChats : n <= m

NoMessage == [id |-> 0, role |-> "", content |-> ""]

\* this.sessions after the lookup at the top of webSocketMessage: the handle's
\* own entry, or one recovered from its attachment or tag.
ResolvedSessions(ws) ==
  IF ws \in DOMAIN sessions \/ RecoverUserId(sock[ws]) = ""
  THEN sessions
  ELSE [w \in DOMAIN sessions \cup {ws} |->
          IF w = ws
          THEN [userId |-> RecoverUserId(sock[ws])]
          ELSE sessions[w]]

ResolvedState(ws) ==
  IF ws \in DOMAIN sessions \/ RecoverUserId(sock[ws]) = ""
  THEN state
  ELSE [state EXCEPT !.activeWebSockets = Cardinality(DOMAIN ResolvedSessions(ws))]

webSocketMessage(ws, type) ==
  /\ InputGateOpen
  /\ sock[ws].live
  /\ pc[ws] = "idle"
  /\ IF ws \notin DOMAIN sessions /\ RecoverUserId(sock[ws]) = ""
     THEN /\ reply' = "Session lost"
          /\ UNCHANGED <<state, sessions, stored, pc, cur, users>>
     ELSE /\ sessions' = ResolvedSessions(ws)
          /\ CASE type = "malformed" ->
                   \* JSON.parse throws: the catch block answers, nothing is saved
                   /\ state' = ResolvedState(ws)
                   /\ reply' = "Internal error processing message"
                   /\ UNCHANGED <<stored, pc, cur, users>>
               [] type = "binary" ->
                   /\ state' = ResolvedState(ws)
                   /\ reply' = "Invalid message format"
                   /\ UNCHANGED <<stored, pc, cur, users>>
               [] type = "ping" ->
                   /\ state' = ResolvedState(ws)
                   /\ stored' = saveState(state')
                   /\ reply' = "pong"
                   /\ UNCHANGED <<pc, cur, users>>
               [] type = "unknown" ->
                   /\ state' = ResolvedState(ws)
                   /\ stored' = saveState(state')
                   /\ reply' = "Unknown message type"
                   /\ UNCHANGED <<pc, cur, users>>
               [] type = "chat" ->
                   \* handleChatMessage up to its first saveMessageToD1
                   /\ FreeChats # {}
                   /\ users' \in ensureUserOutcomes(users, ResolvedSessions(ws)[ws].userId)
                   /\ LET userMessage == [id |-> UserMessageId(NewChat), role |-> "user", content |-> "hello"]
                      IN /\ state' = [ResolvedState(ws) EXCEPT !.conversationHistory =
                                        Append(@, userMessage)]
                         /\ cur' = [cur EXCEPT ![ws] = userMessage]
                   /\ pc' = [pc EXCEPT ![ws] = "saveUser"]
                   /\ reply' = ""
                   /\ UNCHANGED stored
  /\ calls' = <<>>
  /\ UNCHANGED <<actorPc, userId, sock, log, now, runtime, rateLimits, fetching, built, tasks, runs>>

\* The handler's exit through webSocketMessage's catch block.
HandlerThrows(ws) ==
  /\ pc' = [pc EXCEPT ![ws] = "idle"]
  /\ cur' = [cur EXCEPT ![ws] = NoMessage]
  /\ reply' = "Internal error processing message"

\* handleChatMessage: the user message reaches D1 (or the insert throws).
ChatSaveUser(ws) ==
  /\ InputGateOpen
  /\ pc[ws] = "saveUser"
  /\ \/ /\ log' = saveMessageToD1(log, sessions[ws].userId, cur[ws], now)
        /\ pc' = [pc EXCEPT ![ws] = "llm"]
        /\ reply' = ""
        /\ UNCHANGED cur
     \/ /\ HandlerThrows(ws)
        /\ UNCHANGED log
  /\ calls' = <<>>
  /\ UNCHANGED <<actorPc, state, userId, sessions, stored, sock, now, runtime, rateLimits, fetching, built, users, tasks, runs>>

\* handleChatMessage: generateLLMResponseWithRAG returns (it never throws)
\* and the assistant message is pushed onto the cached history.
ChatRespond(ws, ragEnabled, retrieval, first, second) ==
  /\ InputGateOpen
  /\ pc[ws] = "llm"
  /\ LET response == generateLLMResponseWithRAG(ragEnabled, retrieval, first, second)
         assistantMessage == [id |-> ReplyId(cur[ws].id), role |-> "assistant",
                              content |-> response.text]
     IN /\ state' = [state EXCEPT !.conversationHistory = Append(@, assistantMessage)]
        /\ cur' = [cur EXCEPT ![ws] = assistantMessage]
        /\ calls' = response.calls
  /\ pc' = [pc EXCEPT ![ws] = "saveAssistant"]
  /\ reply' = ""
  /\ UNCHANGED <<actorPc, userId, sessions, stored, sock, log, now, runtime, rateLimits, fetching, built, users, tasks, runs>>

\* handleChatMessage: the assistant message reaches D1, chat_response is
\* sent, and webSocketMessage finishes with lastActivity and saveState.
ChatSaveAssistant(ws) ==
  /\ InputGateOpen
  /\ pc[ws] = "saveAssistant"
  /\ \/ /\ log' = saveMessageToD1(log, sessions[ws].userId, cur[ws], now)
        /\ stored' = saveState(state)
        /\ pc' = [pc EXCEPT ![ws] = "idle"]
        /\ cur' = [cur EXCEPT ![ws] = NoMessage]
        /\ reply' = "chat_response"
     \/ /\ HandlerThrows(ws)
        /\ UNCHANGED <<log, stored>>
  /\ calls' = <<>>
  /\ UNCHANGED <<actorPc, state, userId, sessions, sock, now, runtime, rateLimits, fetching, built, users, tasks, runs>>

(* ------------------------- D1: the tasks table ------------------------- *)
\* Numbers as JavaScript and SQL see them: Null is SQL NULL, Absent a field
\* the message does not carry (undefined); both, and 0, are falsy.
Null == -1
Absent == -2
Truthy(x) == x > 0
OrNull(x) == IF Truthy(x) THEN x ELSE Null

\* A message without taskId.
NoTaskId == 0
TaskIds == 1..MaxTasks

\* Due dates a message may carry: exactly one day ahead of the clock's start
\* and a second more.
DueDates == {DaySeconds, DaySeconds + 1}

\* What an update_task message may carry as dueDate: nothing, 0, or a date.
DueDateUpdates == {Absent, 0, DaySeconds + 1}

\* crypto.randomUUID(): task ids are never reused, so the table keeps the
\* place of a deleted row.  A row's title, description and priority are
\* stored and returned but never tested, and are left out.
DeletedRow ==
  [present |-> FALSE, user_id |-> "", due_date |-> Null, completed |-> FALSE, completed_at |-> Null]

\* The row WHERE id = ? AND user_id = ? selects, if any.
Selects(table, uid, taskId) ==
  taskId \in 1..Len(table) /\ table[taskId].present /\ table[taskId].user_id = uid

\* INSERT INTO tasks: completed = 0, completed_at left NULL.
createTask(table, uid, dueDate) ==
  Append(table, [present |-> TRUE, user_id |-> uid, due_date |-> OrNull(dueDate),
                 completed |-> FALSE, completed_at |-> Null])

getTask_AnyUser(table, uid, taskId) == taskId \in 1..Len(table) /\ table[taskId].present

\* SELECT * FROM tasks WHERE id = ? AND user_id = ?: whether a row came back.
getTask(table, uid, taskId) == Selects(table, uid, taskId)

\* UPDATE tasks SET due_date = ? ... WHERE id = ? AND user_id = ?, issued
\* only for the fields the message carries.
updateTask(table, uid, taskId, dueDate) ==
  [i \in 1..Len(table) |->
     IF i = taskId /\ Selects(table, uid, taskId) /\ dueDate # Absent
     THEN [table[i] EXCEPT !.due_date = OrNull(dueDate)]
     ELSE table[i]]

completeTask_NoTimestamp(table, uid, taskId, t) ==
  [i \in 1..Len(table) |->
     IF i = taskId /\ Selects(table, uid, taskId)
     THEN [table[i] EXCEPT !.completed = TRUE]
     ELSE table[i]]

\* UPDATE tasks SET completed = 1, completed_at = ? WHERE id = ? AND user_id = ?
completeTask(table, uid, taskId, t) ==
  [i \in 1..Len(table) |->
     IF i = taskId /\ Selects(table, uid, taskId)
     THEN [table[i] EXCEPT !.completed = TRUE, !.completed_at = UnixSeconds(t)]
     ELSE table[i]]

\* DELETE FROM tasks WHERE id = ? AND user_id = ?
deleteTask(table, uid, taskId) ==
  [i \in 1..Len(table) |->
     IF i = taskId /\ Selects(table, uid, taskId) THEN DeletedRow ELSE table[i]]

(* ----------------------- the TaskWorkflow binding ---------------------- *)
\* env.TASK_WORKFLOW.create({ params }): a new instance, not yet started.
\* task, reminderTime and result are the checkpoints of its steps; live
\* tells whether its run() is in memory.
NewInstance(params) ==
  [params |-> params, pc |-> "queued", attempts |-> 0, live |-> TRUE,
   task |-> <<>>, reminderTime |-> <<>>, wakeAt |-> Null, result |-> <<>>]

ReminderDue_Inclusive(dueDate, t) == dueDate - DaySeconds >= UnixSeconds(t)

\* handleCreateTask's test: the reminder instant is still ahead.
ReminderDue(dueDate, t) == dueDate - DaySeconds > UnixSeconds(t)

\* The reminder instance handleCreateTask asks for.  The title, description
\* and priority it passes along are copied from the task and never tested.
workflowParams(uid, taskId, dueDate) ==
  [userId |-> uid, taskId |-> taskId, action |-> "reminder", dueDate |-> dueDate]

(* --------------------------- task messages ----------------------------- *)
\* A message that reaches the switch in webSocketMessage: the gate is open,
\* no handler of this socket is running, and the session is known or
\* recovered.  (webSocketMessage answers 'Session lost' otherwise, whatever
\* the message's type.)
Dispatched(ws) ==
  /\ InputGateOpen
  /\ sock[ws].live
  /\ pc[ws] = "idle"
  /\ ws \in DOMAIN sessions \/ RecoverUserId(sock[ws]) # ""

SessionUser(ws) == ResolvedSessions(ws)[ws].userId

\* The answer is sent, and webSocketMessage finishes with lastActivity and
\* saveState: the handlers catch their own errors.
Answered(ws, answer) ==
  /\ sessions' = ResolvedSessions(ws)
  /\ state' = ResolvedState(ws)
  /\ stored' = saveState(state')
  /\ reply' = answer
  /\ calls' = <<>>
  /\ UNCHANGED <<actorPc, userId, sock, pc, cur, log, now, runtime, rateLimits, fetching, built>>

CreateAnswer_Strict(inserted, wanted, enqueued) ==
  IF inserted /\ (wanted => enqueued) THEN "task_created" ELSE "Failed to create task"

\* What handleCreateTask sends: a failure to enqueue the reminder is logged.
CreateAnswer(inserted, wanted, enqueued) ==
  IF inserted THEN "task_created" ELSE "Failed to create task"

\* The handlers run their D1 statements one after another; each statement
\* is filtered by id and user_id, and the handler is taken as one step.
\* tasksOk, enqueueOk: whether the tasks table and the workflow binding
\* answer or throw.
handleCreateTask(ws, dueDate, tasksOk, enqueueOk) ==
  /\ Dispatched(ws)
  /\ Len(tasks) < MaxTasks
  /\ users' \in ensureUserOutcomes(users, SessionUser(ws))
  /\ tasks' = IF tasksOk THEN createTask(tasks, SessionUser(ws), dueDate) ELSE tasks
  /\ LET wanted == tasksOk /\ Truthy(dueDate) /\ ReminderDue(dueDate, now)
     IN /\ runs' = IF wanted /\ enqueueOk
                   THEN Append(runs, NewInstance(workflowParams(SessionUser(ws), Len(tasks'), dueDate)))
                   ELSE runs
        /\ Answered(ws, CreateAnswer(tasksOk, wanted, enqueueOk))

handleListTasks(ws, tasksOk) ==
  /\ Dispatched(ws)
  /\ users' \in ensureUserOutcomes(users, SessionUser(ws))
  /\ Answered(ws, IF tasksOk THEN "tasks_list" ELSE "Failed to list tasks")
  /\ UNCHANGED <<tasks, runs>>

handleCompleteTask(ws, taskId, tasksOk) ==
  /\ Dispatched(ws)
  /\ users' \in ensureUserOutcomes(users, SessionUser(ws))
  /\ IF taskId = NoTaskId
     THEN Answered(ws, "Failed to complete task: taskId is required") /\ UNCHANGED tasks
     ELSE IF ~tasksOk
     THEN Answered(ws, "Failed to complete task: D1 error") /\ UNCHANGED tasks
     ELSE IF ~getTask(tasks, SessionUser(ws), taskId)
     THEN Answered(ws, "Failed to complete task: Task not found") /\ UNCHANGED tasks
     ELSE /\ tasks' = completeTask(tasks, SessionUser(ws), taskId, now)
          /\ Answered(ws, IF getTask(tasks', SessionUser(ws), taskId)
                          THEN "task_completed"
                          ELSE "Failed to complete task: Failed to fetch completed task")
  /\ UNCHANGED runs

handleUpdateTask(ws, taskId, dueDate, tasksOk) ==
  /\ Dispatched(ws)
  /\ users' \in ensureUserOutcomes(users, SessionUser(ws))
  /\ IF taskId = NoTaskId
     THEN Answered(ws, "Failed to update task: taskId is required") /\ UNCHANGED tasks
     ELSE IF ~tasksOk
     THEN Answered(ws, "Failed to update task: D1 error") /\ UNCHANGED tasks
     ELSE IF ~getTask(tasks, SessionUser(ws), taskId)
     THEN Answered(ws, "Failed to update task: Task not found") /\ UNCHANGED tasks
     ELSE /\ tasks' = updateTask(tasks, SessionUser(ws), taskId, dueDate)
          /\ Answered(ws, IF getTask(tasks', SessionUser(ws), taskId)
                          THEN "task_updated"
                          ELSE "Failed to update task: Failed to fetch updated task")
  /\ UNCHANGED runs

handleDeleteTask(ws, taskId, tasksOk) ==
  /\ Dispatched(ws)
  /\ users' \in ensureUserOutcomes(users, SessionUser(ws))
  /\ IF taskId = NoTaskId
     THEN Answered(ws, "Failed to delete task: taskId is required") /\ UNCHANGED tasks
     ELSE IF ~tasksOk
     THEN Answered(ws, "Failed to delete task: D1 error") /\ UNCHANGED tasks
     ELSE IF ~getTask(tasks, SessionUser(ws), taskId)
     THEN Answered(ws, "Failed to delete task: Task not found") /\ UNCHANGED tasks
     ELSE /\ tasks' = deleteTask(tasks, SessionUser(ws), taskId)
          /\ Answered(ws, "task_deleted")
  /\ UNCHANGED runs

\* The actor of another user, whose connections are not followed here,
\* handles a task message against the same D1 database.
OtherActor(uid) ==
  /\ uid # userId
  /\ Len(stored) > 0 => uid # stored[1].userId
  /\ reply' = ""
  /\ calls' = <<>>
  /\ UNCHANGED <<actorPc, state, userId, sessions, stored, sock, pc, cur, log, now, runtime, rateLimits, fetching, built, users, runs>>

OtherActorCreatesTask(uid, dueDate) ==
  /\ Len(tasks) < MaxTasks
  /\ tasks' = createTask(tasks, uid, dueDate)
  /\ OtherActor(uid)

OtherActorCompletesTask(uid, taskId) ==
  /\ getTask(tasks, uid, taskId)
  /\ tasks' = completeTask(tasks, uid, taskId, now)
  /\ OtherActor(uid)

OtherActorDeletesTask(uid, taskId) ==
  /\ getTask(tasks, uid, taskId)
  /\ tasks' = deleteTask(tasks, uid, taskId)
  /\ OtherActor(uid)

(* ------------------ TaskWorkflow (src/unnamed/part_001) ---------------- *)
\* The Workflows engine runs an instance step by step.  step.do executes its
\* callback and checkpoints what it returns; a callback that throws is run
\* again, up to MaxRetries times, before the instance ends as errored (the
\* code throws plain Errors, which the engine retries).  An instance's pc
\* names the step it is at, i.e. the first step without a checkpoint.
Runs == 1..Len(runs)

\* Actions a caller may put into an instance's params.
WorkflowActions == {"reminder", "unknown"}

\* Due dates, in seconds from the clock's start: a task's own, in an hour,
\* and the one an instance's params carry, in two days.
NearDueDate == 60 * 60
FarDueDate == 2 * DaySeconds

\* env.TASK_WORKFLOW.create by any holder of the binding.
createInstance(params) ==
  /\ Len(runs) < MaxRuns
  /\ runs' = Append(runs, NewInstance(params))
  /\ reply' = ""
  /\ calls' = <<>>
  /\ UNCHANGED <<actorPc, state, userId, sessions, stored, sock, pc, cur, log, now, runtime, rateLimits, fetching, built, users, tasks>>

StepFails_NoLimit(inst) == inst

\* What step.do leaves in the instance when its callback throws an Error: the
\* step is attempted again until the retry limit is used up.
StepFails(inst) ==
  IF inst.attempts < MaxRetries
  THEN [inst EXCEPT !.attempts = inst.attempts + 1]
  ELSE [inst EXCEPT !.pc = "errored", !.attempts = inst.attempts + 1]

\* The instance moves on to the step named next, its attempts counted anew.
StepDone(inst, next) == [inst EXCEPT !.pc = next, !.attempts = 0]

Skipped == [success |-> TRUE, reminderSent |-> FALSE]

WorkflowStep(r, after) ==
  /\ runs' = [runs EXCEPT ![r] = after]
  /\ reply' = ""
  /\ calls' = <<>>
  /\ UNCHANGED <<actorPc, state, userId, sessions, stored, sock, pc, cur, now, runtime, rateLimits, fetching, built, users, tasks>>

Runnable_OneAtATime(r) ==
  /\ runs[r].live
  /\ \A q \in Runs \ {r} : ~(runs[q].pc = "wait-for-reminder-time" /\ runs[q].wakeAt # Null)

\* Whether the engine executes the next step of an instance: each instance
\* has its own run(), and step.sleep returns control to the engine, so only
\* the instance's own run() being in memory matters.
Runnable(r) == runs[r].live

InvalidAction == [success |-> FALSE, error |-> "INVALID_ACTION"]

actionSwitch_DefaultReminder(inst) ==
  CASE inst.params.action = "decompose" -> StepDone(inst, "decompose-task")
    [] inst.params.action = "schedule" -> StepDone(inst, "schedule-task")
    [] inst.params.action = "cleanup" -> StepDone(inst, "cleanup-old-tasks")
    [] OTHER -> StepDone(inst, "verify-task")

\* switch (params.action): the first step of the action's handler, or the
\* default's result.
actionSwitch(inst) ==
  CASE inst.params.action = "reminder" -> StepDone(inst, "verify-task")
    [] inst.params.action = "decompose" -> StepDone(inst, "decompose-task")
    [] inst.params.action = "schedule" -> StepDone(inst, "schedule-task")
    [] inst.params.action = "cleanup" -> StepDone(inst, "cleanup-old-tasks")
    [] OTHER -> [StepDone(inst, "complete") EXCEPT !.result = <<InvalidAction>>]

\* TaskWorkflow.run
run(r) ==
  /\ r \in Runs
  /\ Runnable(r)
  /\ runs[r].pc = "queued"
  /\ WorkflowStep(r, actionSwitch(runs[r]))
  /\ UNCHANGED log

\* step.do('verify-task'), and the test of task.completed that follows it.
verifyTask(r, d1ok) ==
  /\ r \in Runs
  /\ Runnable(r)
  /\ runs[r].pc = "verify-task"
  /\ LET params == runs[r].params
         found == d1ok /\ Selects(tasks, params.userId, params.taskId)
         task == [dueDate |-> tasks[params.taskId].due_date,
                  completed |-> tasks[params.taskId].completed]
     IN WorkflowStep(r,
          IF ~found THEN StepFails(runs[r])
          ELSE IF task.completed
          THEN [StepDone(runs[r], "complete") EXCEPT !.task = <<task>>, !.result = <<Skipped>>]
          ELSE [StepDone(runs[r], "calculate-reminder-time") EXCEPT !.task = <<task>>])
  /\ UNCHANGED log

\* params.dueDate || task.dueDate
ResolvedDueDate(inst) ==
  IF Truthy(inst.params.dueDate) THEN inst.params.dueDate ELSE inst.task[1].dueDate

ReminderTimestamp_NoOffset(dueDate) == dueDate

ReminderTimestamp(dueDate) == dueDate - DaySeconds

Max(a, b) == IF a >= b THEN a ELSE b

\* What the callback of 'calculate-reminder-time' returns.
ReminderTime(dueDate, t) ==
  [reminderTimestamp |-> ReminderTimestamp(dueDate),
   dueDate |-> dueDate,
   shouldSendNow |-> ReminderTimestamp(dueDate) <= UnixSeconds(t),
   timeUntilReminder |-> Max(0, ReminderTimestamp(dueDate) - UnixSeconds(t))]

\* step.do('calculate-reminder-time'), and the test that decides on the sleep.
calculateReminderTime(r) ==
  /\ r \in Runs
  /\ Runnable(r)
  /\ runs[r].pc = "calculate-reminder-time"
  /\ LET dueDate == ResolvedDueDate(runs[r])
         reminderTime == ReminderTime(dueDate, now)
     IN WorkflowStep(r,
          IF ~Truthy(dueDate) THEN StepFails(runs[r])
          ELSE [StepDone(runs[r], IF ~reminderTime.shouldSendNow /\ reminderTime.timeUntilReminder > 0
                                  THEN "wait-for-reminder-time"
                                  ELSE "recheck-task-status")
                  EXCEPT !.reminderTime = <<reminderTime>>])
  /\ UNCHANGED log

\* step.sleep('wait-for-reminder-time', timeUntilReminder * 1000) is reached:
\* the engine records when to wake the instance.
sleep(r) ==
  /\ r \in Runs
  /\ Runnable(r)
  /\ runs[r].pc = "wait-for-reminder-time"
  /\ runs[r].wakeAt = Null
  /\ WorkflowStep(r, [runs[r] EXCEPT !.wakeAt = now + runs[r].reminderTime[1].timeUntilReminder * MsPerSec])
  /\ UNCHANGED log

\* The sleep is over.
wake(r) ==
  /\ r \in Runs
  /\ Runnable(r)
  /\ runs[r].pc = "wait-for-reminder-time"
  /\ runs[r].wakeAt # Null
  /\ now >= runs[r].wakeAt
  /\ WorkflowStep(r, StepDone(runs[r], "recheck-task-status"))
  /\ UNCHANGED log

\* step.do('recheck-task-status'), and the test of its result.
recheckTaskStatus(r, d1ok) ==
  /\ r \in Runs
  /\ Runnable(r)
  /\ runs[r].pc = "recheck-task-status"
  /\ LET params == runs[r].params
         taskStillIncomplete ==
           Selects(tasks, params.userId, params.taskId) /\ ~tasks[params.taskId].completed
     IN WorkflowStep(r,
          IF ~d1ok THEN StepFails(runs[r])
          ELSE IF ~taskStillIncomplete
          THEN [StepDone(runs[r], "complete") EXCEPT !.result = <<Skipped>>]
          ELSE StepDone(runs[r], "send-reminder"))
  /\ UNCHANGED log

\* crypto.randomUUID() for a reminder entry.
ReminderMessageId(table) == 1000 + Len(table) + 1

\* INSERT INTO conversations: the reminder, with the task's id as metadata.
ReminderEntry(table, params, t) ==
  [id |-> ReminderMessageId(table), user_id |-> params.userId, role |-> "system",
   content |-> "reminder", timestamp |-> UnixSeconds(t), taskId |-> params.taskId]

\* step.do('send-reminder').  The INSERT may throw; or it is applied and the
\* attempt is lost before the engine checkpoints the step ("lost").
sendReminder(r, outcome) ==
  /\ r \in Runs
  /\ Runnable(r)
  /\ runs[r].pc = "send-reminder"
  /\ log' = IF outcome = "throws" THEN log ELSE Append(log, ReminderEntry(log, runs[r].params, now))
  /\ WorkflowStep(r,
       IF outcome = "ok"
       THEN [StepDone(runs[r], "complete") EXCEPT
               !.result = <<[success |-> TRUE, reminderSent |-> TRUE]>>]
       ELSE StepFails(runs[r]))

\* handleDecomposeWorkflow and handleScheduleWorkflow: one step that reads
\* and writes nothing, and a result that says so.
placeholder(r) ==
  /\ r \in Runs
  /\ Runnable(r)
  /\ runs[r].pc \in {"decompose-task", "schedule-task"}
  /\ WorkflowStep(r, [StepDone(runs[r], "complete") EXCEPT !.result = <<[success |-> TRUE]>>])
  /\ UNCHANGED log

CleanupMatches_AnyUser(row, uid, thirtyDaysAgo) ==
  row.present /\ row.completed /\ row.completed_at < thirtyDaysAgo

\* WHERE user_id = ? AND completed = 1 AND completed_at < ?
CleanupMatches(row, uid, thirtyDaysAgo) ==
  row.present /\ row.user_id = uid /\ row.completed /\ row.completed_at < thirtyDaysAgo

\* Math.floor(Date.now() / 1000) - (30 * 24 * 60 * 60)
ThirtyDaysAgo(t) == UnixSeconds(t) - RetentionSeconds

\* DELETE FROM tasks WHERE ...: the table left, and result.meta.changes.
cleanupTasks(table, uid, t) ==
  [table |-> [i \in 1..Len(table) |->
                IF CleanupMatches(table[i], uid, ThirtyDaysAgo(t)) THEN DeletedRow ELSE table[i]],
   changes |-> Cardinality({ i \in 1..Len(table) : CleanupMatches(table[i], uid, ThirtyDaysAgo(t)) })]

\* step.do('cleanup-old-tasks').  The DELETE may throw; or it is applied and
\* the attempt is lost before the engine checkpoints the step ("lost").
cleanupOldTasks(r, outcome) ==
  /\ r \in Runs
  /\ Runnable(r)
  /\ runs[r].pc = "cleanup-old-tasks"
  /\ LET deleted == cleanupTasks(tasks, runs[r].params.userId, now)
     IN /\ tasks' = IF outcome = "throws" THEN tasks ELSE deleted.table
        /\ runs' = [runs EXCEPT ![r] =
                      IF outcome = "ok"
                      THEN [StepDone(runs[r], "complete") EXCEPT
                              !.result = <<[success |-> TRUE, deletedCount |-> deleted.changes]>>]
                      ELSE StepFails(runs[r])]
  /\ reply' = ""
  /\ calls' = <<>>
  /\ UNCHANGED <<actorPc, state, userId, sessions, stored, sock, pc, cur, log, now, runtime, rateLimits, fetching, built, users>>

\* The steps of a reminder run, in the order handleReminderWorkflow awaits
\* them.
ReminderSteps ==
  <<"verify-task", "calculate-reminder-time", "wait-for-reminder-time",
    "recheck-task-status", "send-reminder">>

\* The engine loses an instance's run() from memory (a crash, an eviction):
\* its checkpoints and its pending sleep are durable.
crash(r) ==
  /\ r \in Runs
  /\ runs[r].live
  /\ \E i \in 1..Len(ReminderSteps) : runs[r].pc = ReminderSteps[i]
  /\ WorkflowStep(r, [runs[r] EXCEPT !.live = FALSE])
  /\ UNCHANGED log

ResumePoint_FromStart(inst) == ReminderSteps[1]

\* Where a re-invoked run() executes again: every step.do that has a
\* checkpoint returns its recorded result, so the first step without one.
ResumePoint(inst) == inst.pc

\* The engine invokes run() again on an instance it lost.
resume(r) ==
  /\ r \in Runs
  /\ ~runs[r].live
  /\ WorkflowStep(r, [runs[r] EXCEPT !.live = TRUE, !.pc = ResumePoint(runs[r])])
  /\ UNCHANGED log

\* Time passes until the next sleeping instance is due.
Advance ==
  /\ \E r \in Runs : runs[r].pc = "wait-for-reminder-time" /\ runs[r].wakeAt > now
  /\ now' = CHOOSE t \in { runs[r].wakeAt : r \in { q \in Runs : runs[q].pc = "wait-for-reminder-time" /\ runs[q].wakeAt > now } } :
               \A q \in Runs : (runs[q].pc = "wait-for-reminder-time" /\ runs[q].wakeAt > now) => t <= runs[q].wakeAt
  /\ reply' = ""
  /\ calls' = <<>>
  /\ UNCHANGED <<actorPc, state, userId, sessions, stored, sock, pc, cur, log, runtime, rateLimits, fetching, built, users, tasks, runs>>

(* ------------- sendEmail tool (src/src/types/env.d.ts) ----------------- *)
\* The tool runs in the actor of context.userId, so the limiter's windows of
\* one actor are keyed by the action alone.  The limiter's own code is not
\* among the sources; checkRateLimit and recordRateLimitCall follow its
\* contract: a window is the list of the recorded calls' timestamps, a
\* check drops the expired ones and compares the rest with maxCalls, and
\* only a record adds one.
InWindow(stamps, t, windowMs) == SelectSeq(stamps, LAMBDA at : t - at < windowMs)

checkRateLimit_Records(windows, action, t, maxCalls, windowMs) ==
  [allowed |-> Len(InWindow(windows[action], t, windowMs)) < maxCalls,
   windows |-> [windows EXCEPT ![action] = Append(InWindow(windows[action], t, windowMs), t)]]

\* agent.checkRateLimit(userId, action, maxCalls, windowMs) at time t: the
\* answer and the windows it leaves.
checkRateLimit(windows, action, t, maxCalls, windowMs) ==
  [allowed |-> Len(InWindow(windows[action], t, windowMs)) < maxCalls,
   windows |-> [windows EXCEPT ![action] = InWindow(windows[action], t, windowMs)]]

\* agent.recordRateLimitCall(userId, action) at time t.
recordRateLimitCall(windows, action, t) ==
  [windows EXCEPT ![action] = Append(windows[action], t)]

RateLimitExceeded == "Rate limit exceeded. You can send up to 10 emails per hour. Please try again later."

\* An htmlBody is kept as the number of its characters inside tags and
\* outside of them; a missing one is falsy like the empty one.
\* htmlBody.replace(/<[^>]*>/g, '').length
SanitizedLength(html) == html.text

\* The params of a call, subject and textBody by their lengths: one that
\* passes every check, with and without tags in its htmlBody, and one for
\* each length check to refuse.
EmailParams ==
  { [subject |-> MaxSubjectLength, textBody |-> MAX_BODY_LENGTH, html |-> [tags |-> 0, text |-> 0]],
    [subject |-> MaxSubjectLength, textBody |-> MAX_BODY_LENGTH, html |-> [tags |-> 7, text |-> MAX_BODY_LENGTH]],
    [subject |-> MaxSubjectLength + 1, textBody |-> MAX_BODY_LENGTH, html |-> [tags |-> 0, text |-> 0]],
    [subject |-> MaxSubjectLength, textBody |-> MAX_BODY_LENGTH + 1, html |-> [tags |-> 0, text |-> 0]],
    [subject |-> MaxSubjectLength, textBody |-> MAX_BODY_LENGTH, html |-> [tags |-> 7, text |-> MAX_BODY_LENGTH + 1]] }

\* What execute answers before it calls the API, "" if it goes on to call it.
Rejection(subject, textBody, html) ==
  IF subject > MaxSubjectLength THEN "Email subject too long (max 200 characters)"
  ELSE IF textBody > MAX_BODY_LENGTH THEN "Email body too long (max 10240 characters)"
  ELSE IF html.tags + html.text > 0 /\ SanitizedLength(html) > MAX_BODY_LENGTH
       THEN "Email HTML body too long (max 10240 characters)"
  ELSE ""

\* sendEmailTool.execute up to its await on fetch.  configured says whether
\* env holds both POSTMARK_API_KEY and POSTMARK_FROM_EMAIL; subject and
\* textBody are the lengths of the two strings.
sendEmail(configured, subject, textBody, html) ==
  /\ fetching < MaxSends
  /\ IF ~configured
     THEN /\ reply' = "PostMark API credentials not configured"
          /\ calls' = <<>>
          /\ UNCHANGED <<rateLimits, fetching>>
     ELSE LET limit == checkRateLimit(rateLimits, "email", now, EmailMaxCalls, EmailWindowMs)
          IN /\ rateLimits' = limit.windows
             /\ IF ~limit.allowed
                THEN reply' = RateLimitExceeded /\ calls' = <<>> /\ UNCHANGED fetching
                ELSE IF Rejection(subject, textBody, html) # ""
                THEN reply' = Rejection(subject, textBody, html) /\ calls' = <<>> /\ UNCHANGED fetching
                ELSE reply' = "" /\ calls' = <<"https://api.postmarkapp.com/email">> /\ fetching' = fetching + 1
  /\ UNCHANGED <<actorPc, state, userId, sessions, stored, sock, pc, cur, log, now, runtime, users, tasks, runs, built>>

\* How the await on fetch and the reading of the response can end: an OK
\* response whose body is read, an OK response whose body json() rejects, a
\* non-OK response, and a fetch that throws.
FetchOutcomes == {"ok", "unreadable", "not ok", "throws"}

EmailSent_AnyResponse(outcome) == outcome \in {"ok", "not ok"}

\* Whether execute reaches its recordRateLimitCall.
EmailSent(outcome) == outcome = "ok"

\* sendEmailTool.execute from the return of fetch to its end.
fetchReturns(outcome) ==
  /\ fetching > 0
  /\ fetching' = fetching - 1
  /\ IF EmailSent(outcome)
     THEN rateLimits' = recordRateLimitCall(rateLimits, "email", now) /\ reply' = "Email sent"
     ELSE /\ UNCHANGED rateLimits
          /\ reply' = CASE outcome = "not ok" -> "Email API error"
                         [] OTHER -> "Failed to send email"
  /\ calls' = <<>>
  /\ UNCHANGED <<actorPc, state, userId, sessions, stored, sock, pc, cur, log, now, runtime, users, tasks, runs, built>>

\* The instants the clock is read at: the start, and the last millisecond
\* of each hour and the first of the next.
EmailTimes == {0} \cup { h * EmailWindowMs - 1 : h \in 1..MaxHours } \cup { h * EmailWindowMs : h \in 1..MaxHours }

\* Time passes.
Wait ==
  /\ \E t \in EmailTimes : t > now /\ now' = t
  /\ reply' = ""
  /\ calls' = <<>>
  /\ UNCHANGED <<actorPc, state, userId, sessions, stored, sock, pc, cur, log, runtime, users, tasks, runs, rateLimits, fetching, built>>

(* ------------- MemoryManager (imported from ./memory) ------------------ *)
\* The module's code is not among the sources, only its callers
\* (src/unnamed/part_002) and its tests (src/unnamed/part_004) are;
\* buildContext follows the builder's contract and the tests' expectations.
\* A message is kept as its place in the history and the length of its
\* content, a system prompt as its length, Absent when the option is not
\* given.
estimateTokens(length) == (length + CharsPerToken - 1) \div CharsPerToken

\* The last n elements of a sequence, all of them if it has fewer.
LastN(seq, n) == SubSeq(seq, IF Len(seq) > n THEN Len(seq) - n + 1 ELSE 1, Len(seq))

RECURSIVE TokenSum(_)
TokenSum(messages) ==
  IF messages = <<>> THEN 0
  ELSE estimateTokens(Head(messages).length) + TokenSum(Tail(messages))

\* How many of recent[1..i] are accepted walking from recent[i] to the
\* older ones, total being spent already: the walk stops at the first
\* message that does not fit.
RECURSIVE Accepted(_, _, _, _)
Accepted(recent, i, total, maxTokens) ==
  IF i = 0 THEN 0
  ELSE IF total + estimateTokens(recent[i].length) > maxTokens THEN 0
  ELSE 1 + Accepted(recent, i - 1, total + estimateTokens(recent[i].length), maxTokens)

truncatedFlag_NotWhenEmpty(history, recent, kept) == kept # <<>> /\ Len(kept) < Len(recent)

truncatedFlag_AnyDiscard(history, recent, kept) == Len(kept) < Len(history)

\* context.truncated, as the tests expect it: true when the token budget
\* left out one of the last maxMessages messages (also when it left out all
\* of them), false when only the count limit dropped messages.
truncatedFlag(history, recent, kept) == Len(kept) < Len(recent)

\* The messages of recent[1..i] that fit, taken newest first, passing over
\* each one that does not fit.
RECURSIVE FittingOnes(_, _, _, _)
FittingOnes(recent, i, total, maxTokens) ==
  IF i = 0 THEN <<>>
  ELSE IF total + estimateTokens(recent[i].length) > maxTokens
       THEN FittingOnes(recent, i - 1, total, maxTokens)
  ELSE Append(FittingOnes(recent, i - 1, total + estimateTokens(recent[i].length), maxTokens), recent[i])

buildContext_SkipsUnfit(history, options) ==
  LET maxTokens == IF options.maxTokens = Absent THEN DefaultMaxTokens ELSE options.maxTokens
      maxMessages == IF options.maxMessages = Absent THEN DefaultMaxMessages ELSE options.maxMessages
      recent == LastN(history, maxMessages)
      systemTokens == IF options.systemPrompt = Absent THEN 0 ELSE estimateTokens(options.systemPrompt)
      kept == FittingOnes(recent, Len(recent), systemTokens, maxTokens)
  IN [messages |-> kept,
      systemPrompt |-> options.systemPrompt,
      totalTokens |-> systemTokens + TokenSum(kept),
      truncated |-> truncatedFlag(history, recent, kept)]

RECURSIVE Accepted_ExactFitRefused(_, _, _, _)
Accepted_ExactFitRefused(recent, i, total, maxTokens) ==
  IF i = 0 THEN 0
  ELSE IF total + estimateTokens(recent[i].length) >= maxTokens THEN 0
  ELSE 1 + Accepted_ExactFitRefused(recent, i - 1, total + estimateTokens(recent[i].length), maxTokens)

buildContext_ExactFitRefused(history, options) ==
  LET maxTokens == IF options.maxTokens = Absent THEN DefaultMaxTokens ELSE options.maxTokens
      maxMessages == IF options.maxMessages = Absent THEN DefaultMaxMessages ELSE options.maxMessages
      recent == LastN(history, maxMessages)
      systemTokens == IF options.systemPrompt = Absent THEN 0 ELSE estimateTokens(options.systemPrompt)
      n == Accepted_ExactFitRefused(recent, Len(recent), systemTokens, maxTokens)
      kept == LastN(recent, n)
  IN [messages |-> kept,
      systemPrompt |-> options.systemPrompt,
      totalTokens |-> systemTokens + TokenSum(kept),
      truncated |-> truncatedFlag(history, recent, kept)]

RECURSIVE Accepted_StopsLate(_, _, _, _)
Accepted_StopsLate(recent, i, total, maxTokens) ==
  IF i = 0 THEN 0
  ELSE IF total > maxTokens THEN 0
  ELSE 1 + Accepted_StopsLate(recent, i - 1, total + estimateTokens(recent[i].length), maxTokens)

buildContext_StopsLate(history, options) ==
  LET maxTokens == IF options.maxTokens = Absent THEN DefaultMaxTokens ELSE options.maxTokens
      maxMessages == IF options.maxMessages = Absent THEN DefaultMaxMessages ELSE options.maxMessages
      recent == LastN(history, maxMessages)
      systemTokens == IF options.systemPrompt = Absent THEN 0 ELSE estimateTokens(options.systemPrompt)
      n == Accepted_StopsLate(recent, Len(recent), systemTokens, maxTokens)
      kept == LastN(recent, n)
  IN [messages |-> kept,
      systemPrompt |-> options.systemPrompt,
      totalTokens |-> systemTokens + TokenSum(kept),
      truncated |-> truncatedFlag(history, recent, kept)]

\* MemoryManager.buildContext(history, options)
buildContext(history, options) ==
  LET maxTokens == IF options.maxTokens = Absent THEN DefaultMaxTokens ELSE options.maxTokens
      maxMessages == IF options.maxMessages = Absent THEN DefaultMaxMessages ELSE options.maxMessages
      recent == LastN(history, maxMessages)
      systemTokens == IF options.systemPrompt = Absent THEN 0 ELSE estimateTokens(options.systemPrompt)
      n == Accepted(recent, Len(recent), systemTokens, maxTokens)
      kept == LastN(recent, n)
  IN [messages |-> kept,
      systemPrompt |-> options.systemPrompt,
      totalTokens |-> systemTokens + TokenSum(kept),
      truncated |-> truncatedFlag(history, recent, kept)]

\* Content lengths: empty, one character, 'ABC', 400 characters, and more
\* than the default budget holds.
ContentLengths == {0, 1, 3, 400, 16001}

\* Histories of up to MaxHistory messages.
Histories ==
  UNION { { [i \in 1..n |-> [id |-> i, length |-> lengths[i]]] : lengths \in [1..n -> ContentLengths] } :
          n \in 0..MaxHistory }

MemoryOptions ==
  [maxTokens : {Absent, 1, 100}, maxMessages : {Absent, 1, 2}, systemPrompt : {Absent, 3, 401}]

\* A caller builds a context for the request it is serving.
BuildContextCall(history, options) ==
  /\ built = <<>>
  /\ built' = <<[history |-> history, options |-> options, context |-> buildContext(history, options)]>>
  /\ reply' = ""
  /\ calls' = <<>>
  /\ UNCHANGED <<actorPc, state, userId, sessions, stored, sock, pc, cur, log, now, runtime, users, tasks, runs, rateLimits, fetching>>

\* The length of the retrieval message's content: the header line
\* 'Relevant context from knowledge base:\n', then the snippets joined by
\* '\n\n'.  A snippet is kept as its length.
RECURSIVE JoinedLength(_)
JoinedLength(snippets) ==
  IF snippets = <<>> THEN 0
  ELSE IF Len(snippets) = 1 THEN snippets[1]
  ELSE snippets[1] + 2 + JoinedLength(Tail(snippets))

RagContentLength(snippets) == RagHeaderLength + JoinedLength(snippets)

\* The share of maxTokens the conversation is built with.
ConversationShare_Whole(maxTokens) == maxTokens

ConversationShare(maxTokens) == (7 * maxTokens) \div 10

\* MemoryManager.prepareRAGContext(history, retrievedContext, options); the
\* message with the id 'rag-context' is given the place 0.
prepareRAGContext(history, snippets, options) ==
  IF snippets = <<>> THEN buildContext(history, options)
  ELSE LET maxTokens == IF options.maxTokens = Absent THEN DefaultMaxTokens ELSE options.maxTokens
           conversation == buildContext(history, [options EXCEPT !.maxTokens = ConversationShare(maxTokens)])
           ragMessage == [id |-> 0, length |-> RagContentLength(snippets)]
       IN [messages |-> <<ragMessage>> \o conversation.messages,
           systemPrompt |-> options.systemPrompt,
           totalTokens |-> conversation.totalTokens + estimateTokens(ragMessage.length),
           truncated |-> conversation.truncated]

\* Snippet lists of up to MaxSnippets snippets, short ones and long ones.
SnippetLists == UNION { [1..n -> {12, 2000}] : n \in 0..MaxSnippets }

RagOptions ==
  [maxTokens : {Absent, 10, 100}, maxMessages : {Absent, 1}, systemPrompt : {Absent, 3, 401}]

\* A caller builds a context around what the index returned.
PrepareRAGContextCall(history, snippets, options) ==
  /\ built = <<>>
  /\ built' = <<[history |-> history, snippets |-> snippets, options |-> options,
                 context |-> prepareRAGContext(history, snippets, options)]>>
  /\ reply' = ""
  /\ calls' = <<>>
  /\ UNCHANGED <<actorPc, state, userId, sessions, stored, sock, pc, cur, log, now, runtime, users, tasks, runs, rateLimits, fetching>>

\* The request ends: a context is derived for one request and not kept.
ContextReleased ==
  /\ built # <<>>
  /\ built' = <<>>
  /\ reply' = ""
  /\ calls' = <<>>
  /\ UNCHANGED <<actorPc, state, userId, sessions, stored, sock, pc, cur, log, now, runtime, users, tasks, runs, rateLimits, fetching>>

(* ------------------------- platform events ----------------------------- *)
\* Hibernation: an idle actor's memory is dropped, its handles stay attached.
Hibernate ==
  /\ actorPc = "ready"
  /\ \A w \in Sockets : pc[w] = "idle"
  /\ actorPc' = "down"
  /\ state' = DefaultState
  /\ userId' = ""
  /\ sessions' = <<>>
  /\ sock' = [w \in Sockets |-> [sock[w] EXCEPT !.hibernated = sock[w].live]]
  /\ reply' = ""
  /\ calls' = <<>>
  /\ UNCHANGED <<stored, pc, cur, log, now, runtime, rateLimits, fetching, built, users, tasks, runs>>

\* Crash: memory and running handlers are lost and the connections drop.
Crash ==
  /\ actorPc \in {"loading", "ready"}
  /\ actorPc' = "down"
  /\ state' = DefaultState
  /\ userId' = ""
  /\ sessions' = <<>>
  /\ pc' = [w \in Sockets |-> "idle"]
  /\ cur' = [w \in Sockets |-> NoMessage]
  /\ sock' = [w \in Sockets |-> FreeSock]
  /\ reply' = ""
  /\ calls' = <<>>
  /\ UNCHANGED <<stored, log, now, runtime, rateLimits, fetching, built, users, tasks, runs>>

Tick ==
  /\ now < MaxNow
  /\ now' = now + MsPerSec
  /\ reply' = ""
  /\ calls' = <<>>
  /\ UNCHANGED <<actorPc, state, userId, sessions, stored, sock, pc, cur, log, runtime, rateLimits, fetching, built, users, tasks, runs>>

(* ======================= properties of the actor ======================= *)
\* The steps that process one event of the actor to its end.
AcceptStep == \E claimed \in UserIds : handleWebSocketUpgrade(claimed) /\ reply' = "101 connected"
MessageEndStep ==
  \/ \E ws \in Sockets, type \in MsgTypes \ {"chat"} : webSocketMessage(ws, type)
  \/ \E ws \in Sockets : ChatSaveUser(ws) /\ pc'[ws] = "idle"
  \/ \E ws \in Sockets : ChatSaveAssistant(ws)
CloseStep == \E ws \in Sockets : webSocketClose(ws)
ErrorStep == \E ws \in Sockets : webSocketError(ws)

\* Any step of any handler.
HandlerStep ==
  \/ \E claimed \in UserIds \cup {""} : handleWebSocketUpgrade(claimed)
  \/ \E ws \in Sockets, type \in MsgTypes : webSocketMessage(ws, type)
  \/ \E ws \in Sockets : ChatSaveUser(ws) \/ ChatSaveAssistant(ws)
  \/ \E ws \in Sockets, ragEnabled \in BOOLEAN, retrieval \in Retrievals, first, second \in Outcomes :
       ChatRespond(ws, ragEnabled, retrieval, first, second)
  \/ CloseStep
  \/ ErrorStep

Quiescent == actorPc = "ready" /\ \A w \in Sockets : pc[w] = "idle"

HasRow(table, id) == \E i \in 1..Len(table) : table[i].id = id
RowCount(table, id) == Cardinality({ i \in 1..Len(table) : table[i].id = id })

\* C1: once the canonical userId is established, an upgrade request claiming
\* a different userId is answered 409, no socket is accepted, and the session
\* registry, the in-memory state and the persisted state stay as they were.
C1_MismatchRejected ==
  [][\A claimed \in UserIds :
       (handleWebSocketUpgrade(claimed) /\ state.userId # "" /\ claimed # state.userId)
         => (reply' = "409 userId mismatch" /\ UNCHANGED <<sessions, state, userId, stored, sock>>)]_vars

C1_Witness == reply = "409 userId mismatch" /\ state.userId # "" /\ Len(stored) > 0

\* C2: the first accepted connection sets the canonical userId to the claimed
\* id; afterwards the persisted userId never changes, and whenever the actor
\* is loaded its in-memory userId is the persisted one.
C2_CanonicalUserIdFixed ==
  /\ [](actorPc = "ready" /\ Len(stored) > 0 => state.userId = stored[1].userId)
  /\ [][\A claimed \in UserIds :
          (handleWebSocketUpgrade(claimed) /\ reply' = "101 connected" /\ Len(stored) = 0)
            => (state'.userId = claimed /\ stored'[1].userId = claimed)]_vars
  /\ [][Len(stored) > 0 => (Len(stored') > 0 /\ stored'[1].userId = stored[1].userId)]_vars

C2_Witness ==
  /\ actorPc = "ready"
  /\ \E w \in Sockets : sock[w].hibernated
  /\ state.userId # ""
  /\ Len(stored) > 0 /\ stored[1].userId = state.userId
  /\ reply = "409 userId mismatch"

\* C3: a message on a handle whose attachment names user U is handled under a
\* session of user U and is not answered 'Session lost', in particular after
\* the actor's memory was dropped and the handle survived.
C3_SessionSurvivesRestart ==
  [][\A ws \in Sockets, type \in MsgTypes :
       (webSocketMessage(ws, type) /\ Len(sock[ws].attachment) > 0)
         => /\ reply' # "Session lost"
            /\ ws \in DOMAIN sessions'
            /\ sessions'[ws].userId = sock[ws].attachment[1].userId]_vars

C3_Witness ==
  \E ws \in Sockets :
    /\ sock[ws].hibernated
    /\ Len(sock[ws].attachment) > 0
    /\ ws \in DOMAIN sessions
    /\ reply = "pong"

\* C4: a message on a handle that has no registry entry, no attachment and no
\* tag is answered 'Session lost'; no handler starts, no session is created,
\* and the history, the state, the persisted state and the log are unchanged.
C4_SessionLost ==
  [][\A ws \in Sockets, type \in MsgTypes :
       (/\ webSocketMessage(ws, type)
        /\ ws \notin DOMAIN sessions
        /\ Len(sock[ws].attachment) = 0
        /\ Len(sock[ws].tags) = 0)
         => (reply' = "Session lost" /\ UNCHANGED <<sessions, state, userId, stored, log, pc, cur>>)]_vars

C4_Witness == reply = "Session lost" /\ actorPc = "ready"

\* C5: the registry rebuild gives each live handle the userId that the
\* handle's own attachment or tag yields, and registers no handle that
\* carries neither.
C5_RebuildNeverGuesses ==
  [][(loadState /\ Len(stored) > 0)
       => \A ws \in DOMAIN sessions' :
            /\ Len(sock[ws].attachment) > 0 \/ Len(sock[ws].tags) > 0
            /\ sessions'[ws].userId = RecoverUserId(sock[ws])]_vars

\* C6: after every processed event (accepted connection, message of any type
\* however it ends, close, transport error) the persisted state equals the
\* in-memory state.
C6_PersistedAfterEveryEvent ==
  [][(AcceptStep \/ MessageEndStep \/ CloseStep \/ ErrorStep)
       => (Len(stored') > 0 /\ stored'[1] = state')]_vars

\* C7: every handler step runs after the initial load has completed, and
\* sees the persisted userId whenever a persisted state exists.
C7_StartupBarrier ==
  [][HandlerStep
       => /\ actorPc = "ready"
          /\ Len(stored) > 0 => (state.userId = stored[1].userId /\ userId = stored[1].userId)]_vars

C7_Witness ==
  /\ actorPc = "ready"
  /\ \E w \in Sockets : sock[w].hibernated
  /\ Len(stored) > 0
  /\ reply = "Unknown message type"

\* C8: chat turns are serialized, so whenever no handler is running every
\* user message in the cached history is immediately followed by its own
\* assistant reply.
C8_UserFollowedByReply ==
  Quiescent =>
    \A i \in 1..Len(state.conversationHistory) :
      state.conversationHistory[i].role = "user"
        => /\ i < Len(state.conversationHistory)
           /\ state.conversationHistory[i + 1].id = ReplyId(state.conversationHistory[i].id)

\* C9: the log only grows, one new id at a time, across every step including
\* crash, hibernation and reload; and when a chat turn completes with its
\* chat_response the log holds its user message once and its reply once.
C9_LoggedExactlyOnce ==
  /\ [][\/ log' = log
        \/ \E row \in { log'[i] : i \in 1..Len(log') } :
             log' = Append(log, row) /\ ~HasRow(log, row.id)]_vars
  /\ [][\A ws \in Sockets :
          (ChatSaveAssistant(ws) /\ reply' = "chat_response")
            => /\ RowCount(log', cur[ws].id) = 1
               /\ RowCount(log', cur[ws].id - 1) = 1
               /\ \E i \in 1..Len(log') : log'[i].id = cur[ws].id - 1 /\ log'[i].role = "user"]_vars

C9_Witness ==
  /\ actorPc = "loading"
  /\ \E i, j \in 1..Len(log) :
       log[i].role = "user" /\ log[j].role = "assistant" /\ log[j].id = ReplyId(log[i].id)

\* C10: right after a reactivation the cached history is the last (up to 50)
\* rows of the user's log, in the order in which they were appended.
LoggedMessages(uid) ==
  LET rows == SelectSeq(log, LAMBDA r : r.user_id = uid)
      kept == SubSeq(rows, IF Len(rows) > HistoryLimit THEN Len(rows) - HistoryLimit + 1 ELSE 1,
                     Len(rows))
  IN [i \in 1..Len(kept) |-> [id |-> kept[i].id, role |-> kept[i].role, content |-> kept[i].content]]

C10_ReloadKeepsAppendOrder ==
  [][(loadState /\ Len(stored) > 0)
       => state'.conversationHistory = LoggedMessages(stored[1].userId)]_vars

\* The state one activation leaves behind after FullTurns chat turns, each
\* message logged in a second of its own: the log and the persisted history
\* hold HistoryLimit messages.
FullTurns == HistoryLimit \div 2

PriorLog ==
  [i \in 1..2 * FullTurns |->
     [id |-> i - 2 * FullTurns - 1, user_id |-> "alice",
      role |-> IF i % 2 = 1 THEN "user" ELSE "assistant",
      content |-> IF i % 2 = 1 THEN "hello" ELSE "response",
      timestamp |-> i - 2 * FullTurns - 1]]

PriorHistory ==
  [i \in 1..2 * FullTurns |->
     [id |-> PriorLog[i].id, role |-> PriorLog[i].role, content |-> PriorLog[i].content]]

\* C11: the cached history, in memory and in the persisted blob, never holds
\* more than the reload limit of 50 messages.
C11_HistoryBounded ==
  /\ Len(state.conversationHistory) <= HistoryLimit
  /\ Len(stored) > 0 => Len(stored[1].conversationHistory) <= HistoryLimit

\* The requests to the model backend among the requests of a step.
ModelCalls(requests) == SelectSeq(requests, LAMBDA c : c.to = "model")

\* C12: when a completion request of a chat turn fails, times out or comes
\* back empty, the assistant message appended to the history is one of the
\* canned apologies, no error is sent, and the turn goes on to its
\* chat_response.
C12_FailureGivesApology ==
  [][\A ws \in Sockets, ragEnabled \in BOOLEAN, retrieval \in Retrievals, first, second \in Outcomes :
       (/\ ChatRespond(ws, ragEnabled, retrieval, first, second)
        /\ \E i \in 1..Len(calls') : calls'[i].to = "model" /\ calls'[i].outcome # "ok")
         => /\ state'.conversationHistory[Len(state'.conversationHistory)].content \in Apologies
            /\ cur'[ws].content \in Apologies
            /\ reply' = ""
            /\ pc'[ws] = "saveAssistant"]_vars

\* C13: when the retrieval search throws or finds nothing, exactly one
\* completion request is made, over the plain context; the reply is what the
\* plain path yields, no error is sent, and the turn ends with chat_response
\* once the assistant message is logged.
C13_RetrievalFailureFallsBack ==
  /\ [][\A ws \in Sockets :
          (/\ pc[ws] = "llm"
           /\ pc'[ws] # "llm"
           /\ Len(calls') > 0
           /\ calls'[1].to = "index"
           /\ calls'[1].outcome \in {"throws", "none"})
            => /\ Len(ModelCalls(calls')) = 1
               /\ \A i \in 1..Len(calls') : calls'[i].prompt # "retrieval"
               /\ cur'[ws].content = generateLLMResponse(ModelCalls(calls')[1].outcome).text
               /\ reply' = ""
               /\ pc'[ws] = "saveAssistant"]_vars
  /\ [][\A ws \in Sockets : (ChatSaveAssistant(ws) /\ Len(log') > Len(log)) => reply' = "chat_response"]_vars

C13_Witness ==
  /\ \E ws \in Sockets : pc[ws] = "saveAssistant" /\ cur[ws].content = "response"
  /\ Len(calls) = 2
  /\ calls[1] = [to |-> "index", prompt |-> "", outcome |-> "throws"]
  /\ calls[2].prompt = "plain"

(* ===================== properties of task messages ===================== *)
MissingTaskIdStep(ws) ==
  \E tasksOk \in BOOLEAN :
    \/ handleCompleteTask(ws, NoTaskId, tasksOk)
    \/ handleDeleteTask(ws, NoTaskId, tasksOk)
    \/ \E dueDate \in DueDateUpdates : handleUpdateTask(ws, NoTaskId, dueDate, tasksOk)

\* The error answers of each handler.
CompleteFailures ==
  {"Failed to complete task: taskId is required", "Failed to complete task: Task not found",
   "Failed to complete task: D1 error"}
UpdateFailures ==
  {"Failed to update task: taskId is required", "Failed to update task: Task not found",
   "Failed to update task: D1 error"}
DeleteFailures ==
  {"Failed to delete task: taskId is required", "Failed to delete task: Task not found",
   "Failed to delete task: D1 error"}

\* A complete_task, update_task or delete_task message about taskId handled on
\* ws; the answer sent tells which handler to compare the step with.
TaskStep(ws, taskId) ==
  /\ sock[ws].live
  /\ \E tasksOk \in BOOLEAN :
       \/ /\ reply' \in {"task_completed"} \cup CompleteFailures
          /\ handleCompleteTask(ws, taskId, tasksOk)
       \/ /\ reply' \in {"task_deleted"} \cup DeleteFailures
          /\ handleDeleteTask(ws, taskId, tasksOk)
       \/ /\ reply' \in {"task_updated"} \cup UpdateFailures
          /\ \E dueDate \in DueDateUpdates : handleUpdateTask(ws, taskId, dueDate, tasksOk)

CreateStep(ws) ==
  /\ sock[ws].live
  /\ reply' \in {"task_created", "Failed to create task"}
  /\ \E dueDate \in DueDates \cup {Absent}, tasksOk, enqueueOk \in BOOLEAN :
       handleCreateTask(ws, dueDate, tasksOk, enqueueOk)

ErrorAnswers == CompleteFailures \cup UpdateFailures \cup DeleteFailures

\* C14: a complete_task, update_task or delete_task message without a taskId
\* is answered with an error and changes no task row, no user row, no
\* conversation entry and no field of the in-memory state.
C14_MissingTaskIdChangesNothing ==
  [][\A ws \in Sockets :
       MissingTaskIdStep(ws)
         => (reply' \in ErrorAnswers /\ UNCHANGED <<tasks, users, log, state>>)]_vars

\* C15: complete_task, update_task and delete_task on an id that selects no
\* task of the session's user (no such row, or another user's row) are
\* answered with an error and change no task; and whatever a task message
\* changes or adds in the tasks table is a row of the session's user.
C15_OnlyOwnTasks ==
  [][\A ws \in Sockets :
       LET OwnRows == \A i \in 1..Len(tasks') :
                        (i > Len(tasks) \/ tasks'[i] # tasks[i])
                          => SessionUser(ws) = (IF i > Len(tasks) THEN tasks'[i].user_id
                                                ELSE tasks[i].user_id)
       IN /\ \A taskId \in TaskIds :
               TaskStep(ws, taskId)
                 => /\ ~Selects(tasks, SessionUser(ws), taskId)
                         => (reply' \in ErrorAnswers /\ tasks' = tasks)
                    /\ OwnRows
          /\ CreateStep(ws) => OwnRows]_vars

C15_Witness ==
  /\ reply \in {"Failed to complete task: Task not found", "Failed to update task: Task not found",
                 "Failed to delete task: Task not found"}
  /\ Len(tasks) = MaxTasks
  /\ \A i \in 1..Len(tasks) : tasks[i].present /\ tasks[i].user_id = "bob"
  /\ state.userId = "alice"

\* C16: every task has completedAt set exactly when it is completed.
C16_CompletedAtIffCompleted ==
  \A i \in 1..Len(tasks) :
    tasks[i].present => (tasks[i].completed <=> tasks[i].completed_at # Null)

C16_Witness ==
  /\ reply = "task_completed"
  /\ \E i \in 1..Len(tasks) :
       tasks[i].present /\ tasks[i].completed /\ tasks[i].completed_at = UnixSeconds(now)

\* C17: creating a task appends one reminder instance, carrying the
\* session's user, the new task's id and its due date, exactly when the due
\* date is more than 24 hours ahead, and none otherwise (nor when the
\* binding refuses the request); no task ever has two instances.
C17_ReminderEnqueuedIffDue ==
  /\ [][\A ws \in Sockets, dueDate \in DueDates \cup {Absent}, enqueueOk \in BOOLEAN :
          handleCreateTask(ws, dueDate, TRUE, enqueueOk)
            => IF dueDate \in DueDates /\ dueDate - 86400 > now \div 1000 /\ enqueueOk
               THEN /\ Len(runs') = Len(runs) + 1
                    /\ runs' = Append(runs, runs'[Len(runs')])
                    /\ runs'[Len(runs')].params =
                         [userId |-> SessionUser(ws), taskId |-> Len(tasks'),
                          action |-> "reminder", dueDate |-> dueDate]
               ELSE runs' = runs]_vars
  /\ [](\A i, j \in 1..Len(runs) : runs[i].params.taskId = runs[j].params.taskId => i = j)

C17_Witness ==
  /\ reply = "task_created"
  /\ Len(runs) > 0
  /\ runs[Len(runs)].params.taskId = Len(tasks)
  /\ tasks[Len(tasks)].due_date = runs[Len(runs)].params.dueDate

\* C18: when the workflow binding refuses the reminder of a task due more
\* than 24 hours ahead, the task is stored all the same, the client gets
\* task_created, and neither the instances, the log nor the cached history
\* change.
C18_EnqueueFailureKeepsTask ==
  [][\A ws \in Sockets, dueDate \in DueDates :
       (handleCreateTask(ws, dueDate, TRUE, FALSE) /\ dueDate - 86400 > now \div 1000)
         => /\ reply' = "task_created"
            /\ Len(tasks') = Len(tasks) + 1
            /\ tasks'[Len(tasks')].present
            /\ tasks'[Len(tasks')].due_date = dueDate
            /\ \A i \in 1..Len(tasks) : tasks'[i] = tasks[i]
            /\ UNCHANGED <<runs, log>>
            /\ state'.conversationHistory = state.conversationHistory]_vars

C18_Witness ==
  /\ reply = "task_created"
  /\ Len(tasks) > 0
  /\ tasks[Len(tasks)].present
  /\ tasks[Len(tasks)].due_date - 86400 > now \div 1000
  /\ \A i \in 1..Len(runs) : runs[i].params.taskId # Len(tasks)

\* C19: in a reminder run, a verify-task step that finds no task of that
\* user, and a calculate-reminder-time step for which neither the params nor
\* the task carry a due date, end the run unsuccessfully at once, the step
\* not being attempted again, and write no reminder entry.
C19_FatalFailureNotRetried ==
  [][\A r \in 1..MaxRuns :
       (\/ (verifyTask(r, TRUE)
              /\ ~Selects(tasks, runs[r].params.userId, runs[r].params.taskId))
        \/ (calculateReminderTime(r) /\ ~Truthy(ResolvedDueDate(runs[r]))))
         => /\ runs'[r].pc = "errored"
            /\ log' = log]_vars

\* C20: calculate-reminder-time yields the due date minus 86400 seconds as
\* the reminder instant and shouldSendNow = (that instant <= now); the run
\* goes to sleep exactly when shouldSendNow is false, and then for the
\* instant minus now seconds.  A due date two days ahead gives shouldSendNow
\* false; one an hour ahead gives shouldSendNow true and no sleep.
C20_ComputeDeadline ==
  [][\A r \in 1..MaxRuns :
       /\ (calculateReminderTime(r) /\ Truthy(ResolvedDueDate(runs[r]))) =>
            LET due == ResolvedDueDate(runs[r])
                t == now \div 1000
                computed == runs'[r].reminderTime[1]
            IN /\ computed.reminderTimestamp = due - 86400
               /\ computed.shouldSendNow = (due - 86400 <= t)
               /\ runs'[r].pc \in {"wait-for-reminder-time", "recheck-task-status"}
               /\ (runs'[r].pc = "wait-for-reminder-time") = ~computed.shouldSendNow
               /\ ~computed.shouldSendNow => computed.timeUntilReminder = due - 86400 - t
               /\ due = t + 2 * 86400 => ~computed.shouldSendNow
               /\ due = t + 3600 =>
                    computed.shouldSendNow /\ runs'[r].pc = "recheck-task-status"
       /\ sleep(r) =>
            runs'[r].wakeAt - now = runs[r].reminderTime[1].timeUntilReminder * 1000]_vars

C20_Witness ==
  \E r \in Runs :
    /\ runs[r].pc = "wait-for-reminder-time"
    /\ runs[r].wakeAt = now + DaySeconds * 1000
    /\ ~runs[r].reminderTime[1].shouldSendNow
    /\ runs[r].reminderTime[1].reminderTimestamp = runs[r].params.dueDate - 86400

\* The task an instance is about is completed, or was deleted.
TaskDoneOrDeleted(params) ==
  /\ params.taskId \in 1..Len(tasks)
  /\ ~tasks[params.taskId].present \/ tasks[params.taskId].completed

\* C21: a reminder run that reads its task (at verify-task or at
\* recheck-task-status) after the task was completed or deleted ends there
\* with success = true and reminderSent = false, and writes no reminder entry.
C21_CompletedOrDeletedSkips ==
  [][\A r \in 1..MaxRuns :
       ((verifyTask(r, TRUE) \/ recheckTaskStatus(r, TRUE)) /\ TaskDoneOrDeleted(runs[r].params))
         => /\ runs'[r].pc = "complete"
            /\ runs'[r].result = <<Skipped>>
            /\ log' = log]_vars

\* The reminder entries of the log that carry a task's id.
ReminderEntries(taskId) ==
  { i \in 1..Len(log) : log[i].role = "system" /\ log[i].taskId = taskId }

\* C22: whatever fails, is retried or is lost on the way, a reminder run
\* writes at most one reminder entry: the log never holds more entries for a
\* task than there are runs for it.
C22_AtMostOneReminder ==
  \A taskId \in TaskIds :
    Cardinality(ReminderEntries(taskId))
      <= Cardinality({ r \in Runs : runs[r].params.taskId = taskId })

\* C23: the send-reminder step never writes a reminder entry while the task
\* is completed or deleted.
C23_NoReminderForDoneTask ==
  [][\A r \in 1..MaxRuns, outcome \in {"ok", "lost"} :
       (sendReminder(r, outcome) /\ Len(log') > Len(log))
         => ~TaskDoneOrDeleted(runs[r].params)]_vars

\* The steps that may follow a step of a reminder run.
NextSteps(step) ==
  CASE step = "queued" -> {"verify-task", "complete"}
    [] step = "verify-task" -> {"calculate-reminder-time", "complete", "errored"}
    [] step = "calculate-reminder-time" ->
         {"wait-for-reminder-time", "recheck-task-status", "errored"}
    [] step = "wait-for-reminder-time" -> {"recheck-task-status"}
    [] step = "recheck-task-status" -> {"send-reminder", "complete", "errored"}
    [] step = "send-reminder" -> {"complete", "errored"}
    [] OTHER -> {}

\* The checkpoints an instance holds: the task snapshot, the reminder time
\* and the result.
Checkpoints(inst) == <<inst.task, inst.reminderTime, inst.wakeAt, inst.result>>

\* The checkpoints an instance at a step has: those of the steps before it.
CheckpointsMatch(inst) ==
  CASE inst.pc \in {"queued", "verify-task"} ->
         inst.task = <<>> /\ inst.reminderTime = <<>> /\ inst.result = <<>>
    [] inst.pc = "calculate-reminder-time" ->
         inst.task # <<>> /\ inst.reminderTime = <<>> /\ inst.result = <<>>
    [] inst.pc \in {"wait-for-reminder-time", "recheck-task-status", "send-reminder"} ->
         inst.task # <<>> /\ inst.reminderTime # <<>> /\ inst.result = <<>>
    [] inst.pc = "complete" -> inst.result # <<>>
    [] OTHER -> inst.result = <<>>

\* C24: a reminder run moves through verify-task, calculate-reminder-time,
\* the optional sleep, recheck-task-status and send-reminder in this order
\* only; a step is executed only while it has no checkpoint and all steps
\* before it have theirs; a recorded result never changes; and a run that is
\* re-invoked after a crash is at the step it was at, with the same
\* checkpoints.
C24_StepsInOrder ==
  /\ [][\A r \in Runs :
          /\ runs'[r].pc # runs[r].pc => runs'[r].pc \in NextSteps(runs[r].pc)
          /\ runs[r].task # <<>> => runs'[r].task = runs[r].task
          /\ runs[r].reminderTime # <<>> => runs'[r].reminderTime = runs[r].reminderTime
          /\ runs[r].wakeAt # Null => runs'[r].wakeAt = runs[r].wakeAt
          /\ runs[r].result # <<>> => runs'[r].result = runs[r].result
          /\ resume(r) =>
               runs'[r].pc = runs[r].pc /\ Checkpoints(runs'[r]) = Checkpoints(runs[r])
          /\ (\E d1ok \in BOOLEAN : verifyTask(r, d1ok)) => runs[r].task = <<>>
          /\ calculateReminderTime(r) => runs[r].reminderTime = <<>>
          /\ sleep(r) => runs[r].wakeAt = Null
          /\ (\E outcome \in {"ok", "throws", "lost"} : sendReminder(r, outcome)) =>
               runs[r].result = <<>>]_vars
  /\ [](\A r \in Runs : CheckpointsMatch(runs[r]))

C24_Witness ==
  \E r \in Runs :
    /\ ~runs[r].live
    /\ runs[r].pc = "send-reminder"
    /\ runs[r].wakeAt # Null
    /\ now >= runs[r].wakeAt

\* An instance suspended in step.sleep.
Asleep(inst) ==
  inst.pc = "wait-for-reminder-time" /\ inst.wakeAt # Null /\ inst.wakeAt > now

\* C25: while a reminder run is asleep, every event the actor could process
\* without it is processed (activation, a new connection, a message, a
\* close), and every other run takes the step it is at.
C25_SleepBlocksNothing ==
  \A r \in Runs :
    Asleep(runs[r]) =>
      /\ actorPc = "down" => ENABLED Construct
      /\ actorPc = "loading" => ENABLED loadState
      /\ (InputGateOpen /\ \E w \in Sockets : ~sock[w].live)
           => ENABLED handleWebSocketUpgrade("alice")
      /\ \A ws \in Sockets :
           /\ (InputGateOpen /\ sock[ws].live /\ pc[ws] = "idle")
                => (ENABLED webSocketMessage(ws, "ping") /\ ENABLED webSocketClose(ws))
           /\ Dispatched(ws) => ENABLED handleListTasks(ws, TRUE)
      /\ \A q \in Runs \ {r} :
           runs[q].live =>
             /\ runs[q].pc = "queued" => ENABLED run(q)
             /\ runs[q].pc = "verify-task" => ENABLED verifyTask(q, TRUE)
             /\ runs[q].pc = "calculate-reminder-time" => ENABLED calculateReminderTime(q)
             /\ (runs[q].pc = "wait-for-reminder-time" /\ runs[q].wakeAt = Null)
                  => ENABLED sleep(q)
             /\ runs[q].pc = "recheck-task-status" => ENABLED recheckTaskStatus(q, TRUE)
             /\ runs[q].pc = "send-reminder" => ENABLED sendReminder(q, "ok")

C25_Witness ==
  /\ \E r \in Runs : Asleep(runs[r])
  /\ \E q \in Runs : runs[q].pc = "complete" /\ runs[q].result = <<Skipped>>
  /\ reply = "pong"

\* C26: a cleanup step deletes exactly the rows of params.userId that are
\* completed with completed_at earlier than now minus 30 days, and no other
\* row; a step that ends the run reports the number of rows it deleted; and
\* after the step no row is left that a step at the same instant would
\* delete, so that a second execution deletes nothing and reports 0.
C26_CleanupExact ==
  [][\A r \in 1..MaxRuns, outcome \in {"ok", "lost"} :
       cleanupOldTasks(r, outcome) =>
         LET Old(row) == /\ row.present
                         /\ row.user_id = runs[r].params.userId
                         /\ row.completed
                         /\ row.completed_at < now \div 1000 - 30 * 86400
         IN /\ Len(tasks') = Len(tasks)
            /\ \A i \in 1..Len(tasks) :
                 tasks'[i] = IF Old(tasks[i]) THEN DeletedRow ELSE tasks[i]
            /\ \A i \in 1..Len(tasks') : ~Old(tasks'[i])
            /\ outcome = "ok" =>
                 /\ runs'[r].pc = "complete"
                 /\ runs'[r].result[1].success
                 /\ runs'[r].result[1].deletedCount =
                      Cardinality({ i \in 1..Len(tasks) : Old(tasks[i]) })]_vars

C26_Witness ==
  /\ \E r \in Runs :
       /\ runs[r].params.action = "cleanup"
       /\ runs[r].pc = "complete"
       /\ runs[r].attempts = 0
       /\ runs[r].result = <<[success |-> TRUE, deletedCount |-> 0]>>
  /\ \E i \in 1..Len(tasks) : ~tasks[i].present
  /\ \E i \in 1..Len(tasks) : tasks[i].present /\ tasks[i].completed

\* C27: a run whose action is none of reminder, decompose, schedule and
\* cleanup ends at once with success = false and the error INVALID_ACTION,
\* changing no task and no log entry; it never is at a step and never holds
\* a step's checkpoint.
C27_UnknownActionFails ==
  /\ [][\A r \in 1..MaxRuns :
          (run(r) /\ runs[r].params.action \notin {"reminder", "decompose", "schedule", "cleanup"})
            => /\ runs'[r].pc = "complete"
               /\ runs'[r].result = <<[success |-> FALSE, error |-> "INVALID_ACTION"]>>
               /\ UNCHANGED <<tasks, log>>]_vars
  /\ [](\A r \in Runs :
          runs[r].params.action \notin {"reminder", "decompose", "schedule", "cleanup"}
            => /\ runs[r].pc \in {"queued", "complete"}
               /\ runs[r].task = <<>>
               /\ runs[r].reminderTime = <<>>
               /\ runs[r].wakeAt = Null
               /\ runs[r].attempts = 0)

C27_Witness ==
  \E r \in Runs :
    /\ runs[r].params.action = "unknown"
    /\ runs[r].pc = "complete"
    /\ ~runs[r].result[1].success
    /\ runs[r].result[1].error = "INVALID_ACTION"

\* The number of recorded calls of the email action that lie within the
\* window trailing the instant t.
RecordedWithin(windows, t, windowMs) ==
  Cardinality({ i \in DOMAIN windows["email"] : windows["email"][i] > t - windowMs })

\* C28: a check answers true exactly when fewer than maxCalls recorded calls
\* lie within the trailing window, whatever maxCalls and windowMs it is
\* given; sendEmail's check (10 calls an hour) rejects exactly when 10
\* recorded calls lie within the last hour, and it leaves the number of
\* recorded calls within the window of every later instant as it was.
C28_CheckLimit ==
  /\ [](\A maxCalls \in {1, EmailMaxCalls, EmailMaxCalls + 1}, windowMs \in {1, EmailWindowMs} :
          checkRateLimit(rateLimits, "email", now, maxCalls, windowMs).allowed
            <=> RecordedWithin(rateLimits, now, windowMs) < maxCalls)
  /\ [][\A params \in EmailParams :
          sendEmail(TRUE, params.subject, params.textBody, params.html)
            => /\ reply' = RateLimitExceeded
                    <=> RecordedWithin(rateLimits, now, EmailWindowMs) >= EmailMaxCalls
               /\ \A t \in EmailTimes :
                    t >= now => RecordedWithin(rateLimits', t, EmailWindowMs)
                                  = RecordedWithin(rateLimits, t, EmailWindowMs)]_vars

C28_Witness ==
  /\ reply = RateLimitExceeded
  /\ now > 0
  /\ RecordedWithin(rateLimits, now, EmailWindowMs) >= EmailMaxCalls

\* C29: a call is recorded exactly by the step in which the API's OK
\* response has been read; a send rejected for missing credentials, by the
\* rate limit or by a length check records nothing and does not call the
\* API, and a non-OK response or an exception records nothing.
C29_RecordOnSuccess ==
  /\ [][\A outcome \in FetchOutcomes :
          fetchReturns(outcome)
            => IF outcome = "ok"
               THEN rateLimits'["email"] = Append(rateLimits["email"], now) /\ reply' = "Email sent"
               ELSE rateLimits' = rateLimits /\ reply' # "Email sent"]_vars
  /\ [][\A configured \in BOOLEAN, params \in EmailParams :
          sendEmail(configured, params.subject, params.textBody, params.html)
            => /\ Len(rateLimits'["email"]) <= Len(rateLimits["email"])
               /\ \A i \in DOMAIN rateLimits'["email"] :
                    \E j \in DOMAIN rateLimits["email"] : rateLimits'["email"][i] = rateLimits["email"][j]
               /\ (\/ ~configured
                   \/ RecordedWithin(rateLimits, now, EmailWindowMs) >= EmailMaxCalls
                   \/ params.subject > MaxSubjectLength
                   \/ params.textBody > MAX_BODY_LENGTH
                   \/ params.html.text > MAX_BODY_LENGTH)
                    => (reply' # "" /\ calls' = <<>> /\ fetching' = fetching)]_vars
  /\ [][Len(rateLimits'["email"]) > Len(rateLimits["email"]) => reply' = "Email sent"]_vars

C29_Witness ==
  /\ reply = "Email sent"
  /\ Len(rateLimits["email"]) > 0
  /\ rateLimits["email"][Len(rateLimits["email"])] = now

\* The cost of a text of the given length: the ceiling of length / 4.
CeilQuarter(length) == IF length % 4 = 0 THEN length \div 4 ELSE length \div 4 + 1

RECURSIVE CostOfMessages(_)
CostOfMessages(messages) ==
  IF messages = <<>> THEN 0
  ELSE CeilQuarter(messages[1].length) + CostOfMessages(SubSeq(messages, 2, Len(messages)))

CostOfPrompt(options) == IF options.systemPrompt = Absent THEN 0 ELSE CeilQuarter(options.systemPrompt)

BudgetOf(options) == IF options.maxTokens = Absent THEN 4000 ELSE options.maxTokens

\* C30 as claimed: for every history and all options, the context's
\* totalTokens is the system prompt's cost plus the kept messages' costs,
\* and is at most maxTokens.
C30_TotalWithinBudget ==
  built # <<>>
    => /\ built[1].context.totalTokens
            = CostOfPrompt(built[1].options) + CostOfMessages(built[1].context.messages)
       /\ built[1].context.totalTokens <= BudgetOf(built[1].options)

\* C30 as amended: totalTokens is the system prompt's cost plus the kept
\* messages' costs, and is at most maxTokens whenever the system prompt's
\* cost alone is at most maxTokens.
C30_TotalWithinBudgetGivenPrompt ==
  built # <<>>
    => /\ built[1].context.totalTokens
            = CostOfPrompt(built[1].options) + CostOfMessages(built[1].context.messages)
       /\ CostOfPrompt(built[1].options) <= BudgetOf(built[1].options)
            => built[1].context.totalTokens <= BudgetOf(built[1].options)

C30_Witness ==
  /\ built # <<>>
  /\ built[1].options.systemPrompt # Absent
  /\ CostOfPrompt(built[1].options) <= BudgetOf(built[1].options)
  /\ built[1].context.messages # <<>>
  /\ Len(built[1].context.messages) < Len(built[1].history)
  /\ built[1].context.totalTokens > CostOfPrompt(built[1].options)

\* The last k messages of a history, by their places in it.
Suffix(history, k) == [i \in 1..k |-> history[Len(history) - k + i]]

CountCapOf(options) == IF options.maxMessages = Absent THEN 50 ELSE options.maxMessages

\* C31: the kept messages are the last k messages of the history, in their
\* order, for some k that is at most maxMessages: no message is kept while
\* a newer one is dropped.
C31_KeptIsSuffix ==
  built # <<>>
    => \E k \in 0..Len(built[1].history) :
         /\ k <= CountCapOf(built[1].options)
         /\ built[1].context.messages = Suffix(built[1].history, k)

\* The newest message does not fit and is dropped, and so is the one before
\* it, which alone would have fitted the budget left by the prompt.
C31_Witness ==
  /\ built # <<>>
  /\ Len(built[1].history) = 2
  /\ CountCapOf(built[1].options) >= 2
  /\ built[1].context.messages = <<>>
  /\ CostOfPrompt(built[1].options) + CeilQuarter(built[1].history[1].length) <= BudgetOf(built[1].options)
  /\ CostOfPrompt(built[1].options) + CeilQuarter(built[1].history[2].length) > BudgetOf(built[1].options)

\* How many messages the count limit leaves.
CountLimited(history, options) ==
  IF Len(history) > CountCapOf(options) THEN CountCapOf(options) ELSE Len(history)

\* C32 as claimed: truncated is true exactly when an input message was
\* discarded, by the count limit or by the token budget.
C32_TruncatedIffDiscarded ==
  built # <<>>
    => (built[1].context.truncated <=> Len(built[1].context.messages) < Len(built[1].history))

\* C32 as amended: truncated is true exactly when the token budget left
\* out one of the messages the count limit had left.
C32_TruncatedIffBudgetDiscarded ==
  built # <<>>
    => (built[1].context.truncated
          <=> Len(built[1].context.messages) < CountLimited(built[1].history, built[1].options))

\* The single newest message alone exceeds the budget: an empty context
\* that is truncated.
C32_Witness ==
  /\ built # <<>>
  /\ Len(built[1].history) = 1
  /\ built[1].context.messages = <<>>
  /\ built[1].context.truncated

\* C33: when the history has more than maxMessages messages and the last
\* maxMessages of them fit the budget, exactly those are kept and truncated
\* is false.
C33_CountCapIsNotTruncation ==
  (/\ built # <<>>
   /\ Len(built[1].history) > CountCapOf(built[1].options)
   /\ CostOfPrompt(built[1].options)
        + CostOfMessages(Suffix(built[1].history, CountCapOf(built[1].options))) <= BudgetOf(built[1].options))
    => /\ built[1].context.messages = Suffix(built[1].history, CountCapOf(built[1].options))
       /\ ~built[1].context.truncated

C33_Witness ==
  /\ built # <<>>
  /\ Len(built[1].history) > CountCapOf(built[1].options)
  /\ Len(built[1].context.messages) = CountCapOf(built[1].options)
  /\ built[1].context.totalTokens > 0
  /\ ~built[1].context.truncated

RECURSIVE TotalChars(_)
TotalChars(messages) ==
  IF messages = <<>> THEN 0 ELSE messages[1].length + TotalChars(SubSeq(messages, 2, Len(messages)))

\* C34 as claimed: a history of at most maxMessages messages with at most
\* 4 * maxTokens characters in all is kept whole and in order, truncated
\* false, whatever the split of the characters and the system prompt.
C34_SmallHistoryKept ==
  (/\ built # <<>>
   /\ Len(built[1].history) <= CountCapOf(built[1].options)
   /\ TotalChars(built[1].history) <= 4 * BudgetOf(built[1].options))
    => /\ built[1].context.messages = built[1].history
       /\ ~built[1].context.truncated

\* C34 as amended: a history of at most maxMessages messages whose costs,
\* each rounded up, fit maxTokens together with the system prompt's cost is
\* kept whole and in order, truncated false.
C34_FittingHistoryKept ==
  (/\ built # <<>>
   /\ Len(built[1].history) <= CountCapOf(built[1].options)
   /\ CostOfPrompt(built[1].options) + CostOfMessages(built[1].history) <= BudgetOf(built[1].options))
    => /\ built[1].context.messages = built[1].history
       /\ ~built[1].context.truncated

C34_Witness ==
  /\ built # <<>>
  /\ Len(built[1].history) = 2
  /\ built[1].options.systemPrompt # Absent
  /\ CostOfPrompt(built[1].options) + CostOfMessages(built[1].history) = BudgetOf(built[1].options)
  /\ built[1].context.messages = built[1].history
  /\ ~built[1].context.truncated

\* 70% of the budget, and the conversation part of a context built around
\* snippets: its messages after the first.
ShareOf(options) == (BudgetOf(options) * 70) \div 100

ConversationPart(context) == SubSeq(context.messages, 2, Len(context.messages))

\* What both forms of C35 say of a context built around a non-empty snippet
\* list b.snippets: the retrieval message comes first, the rest are the
\* last messages of the history, as many as the count limit and 70% of
\* maxTokens allow, and totalTokens is the cost of the prompt, of the
\* conversation part and of the retrieval message.
RetrievalFirstAndShare(b) ==
  /\ b.context.messages # <<>>
  /\ b.context.messages[1].id = 0
  /\ \E k \in 0..CountLimited(b.history, b.options) :
       /\ ConversationPart(b.context) = Suffix(b.history, k)
       /\ k > 0 => CostOfPrompt(b.options) + CostOfMessages(Suffix(b.history, k)) <= ShareOf(b.options)
       /\ k < CountLimited(b.history, b.options)
            => CostOfPrompt(b.options) + CostOfMessages(Suffix(b.history, k + 1)) > ShareOf(b.options)
  /\ b.context.totalTokens
       = CostOfPrompt(b.options) + CostOfMessages(ConversationPart(b.context))
           + CeilQuarter(b.context.messages[1].length)

\* C35 as claimed: and totalTokens is at most maxTokens, for every history,
\* snippet list and maxTokens.
C35_RagWithinBudget ==
  (built # <<>> /\ built[1].snippets # <<>>)
    => /\ RetrievalFirstAndShare(built[1])
       /\ built[1].context.totalTokens <= BudgetOf(built[1].options)

\* C35 as amended: and totalTokens is at most maxTokens whenever the
\* prompt's cost is within the 70% and the retrieval message's cost within
\* the rest.
C35_RagWithinBudgetGivenShort ==
  (built # <<>> /\ built[1].snippets # <<>>)
    => /\ RetrievalFirstAndShare(built[1])
       /\ (/\ CostOfPrompt(built[1].options) <= ShareOf(built[1].options)
           /\ CeilQuarter(built[1].context.messages[1].length)
                <= BudgetOf(built[1].options) - ShareOf(built[1].options))
            => built[1].context.totalTokens <= BudgetOf(built[1].options)

\* A message that the whole budget would hold is left out by the 70%.
C35_Witness ==
  /\ built # <<>>
  /\ built[1].snippets # <<>>
  /\ Len(built[1].context.messages) = 2
  /\ Len(built[1].history) = 2
  /\ CountCapOf(built[1].options) >= 2
  /\ CostOfPrompt(built[1].options) + CostOfMessages(built[1].history) <= BudgetOf(built[1].options)
  /\ built[1].context.totalTokens <= BudgetOf(built[1].options)

(* --------------------------- specifications --------------------------- *)
\* The connection registry and the persisted state: every event of the actor
\* except chat turns, on every kind of runtime, for two competing user ids.
Next ==
  \/ Construct
  \/ loadState
  \/ \E claimed \in UserIds \cup {""} : handleWebSocketUpgrade(claimed)
  \/ \E ws \in Sockets, type \in MsgTypes \ {"chat"} : webSocketMessage(ws, type)
  \/ \E ws \in Sockets : webSocketClose(ws)
  \/ \E ws \in Sockets : webSocketError(ws)
  \/ Hibernate
  \/ Crash

Spec == Init /\ [][Next]_vars

\* Chat turns of one user on the Workers runtime (attachments kept, tags not
\* exposed on the handle), with connects, closes, transport errors, failing
\* inserts into the conversations table, hibernation, crashes and the passing
\* of time.  The users table and the model backend answer, and RAG is off.
InitChat == Init /\ runtime = [attachments |-> TRUE, tags |-> FALSE]

NextChat ==
  \/ Construct
  \/ loadState
  \/ handleWebSocketUpgrade("alice")
  \/ \E ws \in Sockets : webSocketMessage(ws, "chat") /\ sessions'[ws].userId \in users'
  \/ \E ws \in Sockets : ChatSaveUser(ws)
  \/ \E ws \in Sockets : ChatRespond(ws, FALSE, "none", "ok", "ok")
  \/ \E ws \in Sockets : ChatSaveAssistant(ws)
  \/ \E ws \in Sockets : webSocketClose(ws)
  \/ \E ws \in Sockets : webSocketError(ws)
  \/ Hibernate
  \/ Crash
  \/ Tick

SpecChat == InitChat /\ [][NextChat]_vars

\* Chat turns against failing collaborators: the users table, the retrieval
\* search and the model backend may each fail or answer on any turn, with
\* RAG switched on or off, while connections close.
NextLLM ==
  \/ Construct
  \/ loadState
  \/ handleWebSocketUpgrade("alice")
  \/ \E ws \in Sockets : webSocketMessage(ws, "chat")
  \/ \E ws \in Sockets : ChatSaveUser(ws)
  \/ \E ws \in Sockets, ragEnabled \in BOOLEAN, retrieval \in Retrievals, first, second \in Outcomes :
       ChatRespond(ws, ragEnabled, retrieval, first, second)
  \/ \E ws \in Sockets : ChatSaveAssistant(ws)
  \/ \E ws \in Sockets : webSocketClose(ws)

SpecLLM == InitChat /\ [][NextLLM]_vars

\* Task messages of one user over one connection, with another user's tasks
\* in the same table: the users table, the tasks table and the workflow
\* binding may each throw, and time passes.  Inputs a handler never reads
\* on the path taken (the due date of a rejected update, the binding when no
\* reminder is wanted) are given one value.
NextTasks ==
  \/ Construct
  \/ loadState
  \/ handleWebSocketUpgrade("alice") /\ getWebSockets = {}
  \/ \E ws \in Sockets, dueDate \in DueDates, enqueueOk \in BOOLEAN :
       handleCreateTask(ws, dueDate, TRUE, enqueueOk)
  \/ \E ws \in Sockets, tasksOk \in BOOLEAN : handleCreateTask(ws, Absent, tasksOk, TRUE)
  \/ \E ws \in Sockets, tasksOk \in BOOLEAN : handleListTasks(ws, tasksOk)
  \/ \E ws \in Sockets, taskId \in TaskIds \cup {NoTaskId} : handleCompleteTask(ws, taskId, TRUE)
  \/ \E ws \in Sockets : handleCompleteTask(ws, 1, FALSE)
  \/ \E ws \in Sockets, taskId \in TaskIds, dueDate \in DueDateUpdates :
       handleUpdateTask(ws, taskId, dueDate, TRUE)
  \/ \E ws \in Sockets, tasksOk \in BOOLEAN :
       handleUpdateTask(ws, IF tasksOk THEN NoTaskId ELSE 1, Absent, tasksOk)
  \/ \E ws \in Sockets, taskId \in TaskIds \cup {NoTaskId} : handleDeleteTask(ws, taskId, TRUE)
  \/ \E ws \in Sockets : handleDeleteTask(ws, 1, FALSE)
  \/ OtherActorCreatesTask("bob", Absent)
  \/ Tick

SpecTasks == InitChat /\ [][NextTasks]_vars

\* Workflow instances of one user, whose actor creates, completes and
\* deletes tasks meanwhile: instances are created through the binding for a
\* task that exists, with any action and due date, D1 may throw inside a step, and time passes from one wake-up
\* to the next.
NextWF ==
  \/ \E dueDate \in {Absent, NearDueDate} : OtherActorCreatesTask("alice", dueDate)
  \/ \E taskId \in TaskIds : OtherActorCompletesTask("alice", taskId)
  \/ \E taskId \in TaskIds : OtherActorDeletesTask("alice", taskId)
  \/ \E action \in WorkflowActions, taskId \in TaskIds, dueDate \in {Absent, FarDueDate} :
       /\ getTask(tasks, "alice", taskId)
       /\ createInstance([userId |-> "alice", taskId |-> taskId, action |-> action, dueDate |-> dueDate])
  \/ \E r \in 1..MaxRuns : run(r)
  \/ \E r \in 1..MaxRuns, d1ok \in BOOLEAN : verifyTask(r, d1ok)
  \/ \E r \in 1..MaxRuns : calculateReminderTime(r)
  \/ \E r \in 1..MaxRuns : sleep(r)
  \/ \E r \in 1..MaxRuns : wake(r)
  \/ \E r \in 1..MaxRuns, d1ok \in BOOLEAN : recheckTaskStatus(r, d1ok)
  \/ \E r \in 1..MaxRuns, outcome \in {"ok", "throws", "lost"} : sendReminder(r, outcome)
  \/ Advance

SpecWF == InitChat /\ [][NextWF]_vars

\* Reminder runs of one user whose engine loses and re-invokes them between
\* any two steps, and loses attempts of send-reminder after their write.
NextCrash ==
  \/ OtherActorCreatesTask("alice", NearDueDate)
  \/ \E taskId \in TaskIds : OtherActorCompletesTask("alice", taskId)
  \/ \E taskId \in TaskIds : OtherActorDeletesTask("alice", taskId)
  \/ \E taskId \in TaskIds, dueDate \in {Absent, FarDueDate} :
       createInstance([userId |-> "alice", taskId |-> taskId, action |-> "reminder", dueDate |-> dueDate])
  \/ \E r \in 1..MaxRuns : run(r)
  \/ \E r \in 1..MaxRuns, d1ok \in BOOLEAN : verifyTask(r, d1ok)
  \/ \E r \in 1..MaxRuns : calculateReminderTime(r)
  \/ \E r \in 1..MaxRuns : sleep(r)
  \/ \E r \in 1..MaxRuns : wake(r)
  \/ \E r \in 1..MaxRuns : recheckTaskStatus(r, TRUE)
  \/ \E r \in 1..MaxRuns, outcome \in {"ok", "lost"} : sendReminder(r, outcome)
  \/ \E r \in 1..MaxRuns : crash(r)
  \/ \E r \in 1..MaxRuns : resume(r)
  \/ Advance

SpecCrash == InitChat /\ [][NextCrash]_vars

\* Tasks of two users, some completed just over and some exactly 30 days
\* before the clock's start; cleanup, decompose and schedule runs for one of
\* the users, while that user completes tasks and time passes.
OldRows ==
  { [present |-> TRUE, user_id |-> uid, due_date |-> Null,
     completed |-> at # Null, completed_at |-> at] :
      uid \in UserIds, at \in {Null, -RetentionSeconds - 1, -RetentionSeconds} }

InitCleanup ==
  /\ actorPc = "down"
  /\ state = DefaultState
  /\ userId = ""
  /\ sessions = <<>>
  /\ stored = <<>>
  /\ sock = [w \in Sockets |-> FreeSock]
  /\ pc = [w \in Sockets |-> "idle"]
  /\ cur = [w \in Sockets |-> NoMessage]
  /\ log = <<>>
  /\ now = 0
  /\ reply = ""
  /\ calls = <<>>
  /\ users = UserIds
  /\ tasks \in [1..MaxTasks + 1 -> OldRows]
  /\ runs = <<>>
  /\ runtime = [attachments |-> TRUE, tags |-> FALSE]
  /\ rateLimits = [a \in {"email"} |-> <<>>]
  /\ fetching = 0
  /\ built = <<>>

NextCleanup ==
  \/ \E action \in {"cleanup", "decompose", "schedule"} :
       createInstance([userId |-> "alice", taskId |-> NoTaskId, action |-> action, dueDate |-> Absent])
  \/ \E r \in 1..MaxRuns : run(r)
  \/ \E r \in 1..MaxRuns : placeholder(r)
  \/ \E r \in 1..MaxRuns, outcome \in {"ok", "throws", "lost"} : cleanupOldTasks(r, outcome)
  \/ \E taskId \in 1..Len(tasks) : OtherActorCompletesTask("alice", taskId)
  \/ Tick

SpecCleanup == InitCleanup /\ [][NextCleanup]_vars

\* A user with two tasks due in two days: the reminder run of the first is
\* asleep, the run of the second is queued, and the actor is evicted.
SleepingInstance ==
  [NewInstance(workflowParams("alice", 1, FarDueDate)) EXCEPT
     !.pc = "wait-for-reminder-time",
     !.task = <<[dueDate |-> FarDueDate, completed |-> FALSE]>>,
     !.reminderTime = <<ReminderTime(FarDueDate, 0)>>,
     !.wakeAt = ReminderTime(FarDueDate, 0).timeUntilReminder * MsPerSec]

InitSleep ==
  /\ actorPc = "down"
  /\ state = DefaultState
  /\ userId = ""
  /\ sessions = <<>>
  /\ stored = <<[userId |-> "alice", conversationHistory |-> <<>>, activeWebSockets |-> 0]>>
  /\ sock = [w \in Sockets |-> FreeSock]
  /\ pc = [w \in Sockets |-> "idle"]
  /\ cur = [w \in Sockets |-> NoMessage]
  /\ log = <<>>
  /\ now = 0
  /\ reply = ""
  /\ calls = <<>>
  /\ users = {"alice"}
  /\ tasks = createTask(createTask(<<>>, "alice", FarDueDate), "alice", FarDueDate)
  /\ runs = <<SleepingInstance, NewInstance(workflowParams("alice", 2, FarDueDate))>>
  /\ runtime = [attachments |-> TRUE, tags |-> FALSE]
  /\ rateLimits = [a \in {"email"} |-> <<>>]
  /\ fetching = 0
  /\ built = <<>>

\* The actor's events and the runs' steps side by side.
NextSleep ==
  \/ Construct
  \/ loadState
  \/ handleWebSocketUpgrade("alice")
  \/ \E ws \in Sockets : webSocketMessage(ws, "ping")
  \/ \E ws \in Sockets : handleListTasks(ws, TRUE)
  \/ \E ws \in Sockets, taskId \in 1..Len(tasks) : handleCompleteTask(ws, taskId, TRUE)
  \/ \E ws \in Sockets : webSocketClose(ws)
  \/ Hibernate
  \/ \E r \in Runs : run(r)
  \/ \E r \in Runs : verifyTask(r, TRUE)
  \/ \E r \in Runs : calculateReminderTime(r)
  \/ \E r \in Runs : sleep(r)
  \/ \E r \in Runs : wake(r)
  \/ \E r \in Runs : recheckTaskStatus(r, TRUE)
  \/ \E r \in Runs : sendReminder(r, "ok")
  \/ Advance

SpecSleep == InitSleep /\ [][NextSleep]_vars

\* The sendEmail tool of one user's actor over the hours.
NextEmail ==
  \/ \E configured \in BOOLEAN, params \in EmailParams :
       sendEmail(configured, params.subject, params.textBody, params.html)
  \/ \E outcome \in FetchOutcomes : fetchReturns(outcome)
  \/ Wait

SpecEmail == InitChat /\ [][NextEmail]_vars

\* Calls of the context builder.
NextMemory ==
  \/ /\ built = <<>>
     /\ \E history \in Histories, options \in MemoryOptions : BuildContextCall(history, options)
  \/ ContextReleased

SpecMemory == InitChat /\ [][NextMemory]_vars

\* Calls of the builder around retrieved snippets.
NextRAG ==
  \/ /\ built = <<>>
     /\ \E history \in Histories, snippets \in SnippetLists, options \in RagOptions :
          PrepareRAGContextCall(history, snippets, options)
  \/ ContextReleased

SpecRAG == InitChat /\ [][NextRAG]_vars

\* Chat turns in an activation that starts from a full log.
InitHistory ==
  /\ actorPc = "down"
  /\ state = DefaultState
  /\ userId = ""
  /\ sessions = <<>>
  /\ stored = <<[userId |-> "alice", conversationHistory |-> PriorHistory, activeWebSockets |-> 0]>>
  /\ sock = [w \in Sockets |-> FreeSock]
  /\ pc = [w \in Sockets |-> "idle"]
  /\ cur = [w \in Sockets |-> NoMessage]
  /\ log = PriorLog
  /\ now = 0
  /\ reply = ""
  /\ calls = <<>>
  /\ users = {"alice"}
  /\ tasks = <<>>
  /\ runs = <<>>
  /\ runtime = [attachments |-> TRUE, tags |-> FALSE]
  /\ rateLimits = [a \in {"email"} |-> <<>>]
  /\ fetching = 0
  /\ built = <<>>

SpecHistory == InitHistory /\ [][NextChat]_vars

(* ------------------- C36: one identity per actor ----------------------- *)
\* The userId a message arriving on ws would be handled under: the entry the
\* lookup at the top of webSocketMessage leaves in the registry.
HandledUnder(ws) == ResolvedSessions(ws)[ws].userId

\* C36: in every reachable state every session in the registry carries the
\* actor's canonical userId (the one in its state and in its userId field),
\* however the session came to be there (connection, recovery on a message,
\* rebuild on reactivation), and a message delivered on any attached handle
\* is handled under that same userId.
C36_OneIdentity ==
  /\ \A w \in DOMAIN sessions :
       /\ sessions[w].userId = state.userId
       /\ sessions[w].userId = userId
       /\ sessions[w].userId # ""
  /\ \A ws \in Sockets :
       (InputGateOpen /\ sock[ws].live /\ ws \in DOMAIN ResolvedSessions(ws))
         => HandledUnder(ws) = state.userId

\* A session rebuilt on reactivation, after a connection under the other
\* userId was refused.
C36_Witness ==
  /\ \E w \in DOMAIN sessions : sock[w].hibernated /\ sessions[w].userId = userId
  /\ reply = "409 userId mismatch"

(* ------------- C37: the hourly cap under concurrent sends -------------- *)
\* C37: the number of emails sent successfully (the recorded calls) within
\* the hour trailing the present instant never exceeds 10, however the
\* executions of sendEmail interleave.
C37_AtMostTenPerHour ==
  RecordedWithin(rateLimits, now, EmailWindowMs) <= EmailMaxCalls

(* ------------- C38: completion requests per chat message --------------- *)
\* C38: the requests a handled chat message makes hold at most one
\* completion request, on every path: RAG off, no snippet found, the search
\* failing, and the completion failing or timing out inside the RAG path.
C38_AtMostOneCompletion == Len(ModelCalls(calls)) <= 1

(* ------------- C39: reminders and a due date that moves ---------------- *)
\* A user's task whose reminder run was enqueued by create_task, and whose
\* due date update_task then moves to two days ahead.
NextReschedule ==
  \/ Construct
  \/ loadState
  \/ handleWebSocketUpgrade("alice") /\ getWebSockets = {}
  \/ \E ws \in Sockets, dueDate \in DueDates : handleCreateTask(ws, dueDate, TRUE, TRUE)
  \/ \E ws \in Sockets, taskId \in TaskIds : handleUpdateTask(ws, taskId, FarDueDate, TRUE)
  \/ \E ws \in Sockets : webSocketClose(ws)
  \/ \E r \in 1..MaxRuns : run(r)
  \/ \E r \in 1..MaxRuns : verifyTask(r, TRUE)
  \/ \E r \in 1..MaxRuns : calculateReminderTime(r)
  \/ \E r \in 1..MaxRuns : sleep(r)
  \/ \E r \in 1..MaxRuns : wake(r)
  \/ \E r \in 1..MaxRuns : recheckTaskStatus(r, TRUE)
  \/ \E r \in 1..MaxRuns : sendReminder(r, "ok")
  \/ Advance

SpecReschedule == InitChat /\ [][NextReschedule]_vars

\* C39: a reminder entry is written only at or after the instant 24 hours
\* before the due date its task has at the moment of the write, also when
\* update_task has moved the due date after the run was enqueued.
C39_NoEarlyReminder ==
  [][\A r \in 1..MaxRuns :
       (sendReminder(r, "ok") /\ Selects(tasks, runs[r].params.userId, runs[r].params.taskId)
          /\ tasks[runs[r].params.taskId].due_date # Null)
         => /\ Len(log') = Len(log) + 1
            /\ log'[Len(log')].timestamp >= tasks[runs[r].params.taskId].due_date - DaySeconds]_vars

(* ------------------- C40: every run comes to an end -------------------- *)
\* The pcs of an instance whose run() has returned or was given up.
TerminalPcs == {"complete", "errored"}

\* The next step of instance r, its D1 statements answering or throwing.
EngineStep(r) ==
  \/ run(r)
  \/ \E d1ok \in BOOLEAN : verifyTask(r, d1ok)
  \/ calculateReminderTime(r)
  \/ sleep(r)
  \/ wake(r)
  \/ recheckTaskStatus(r, TRUE)
  \/ \E outcome \in {"ok", "throws"} : sendReminder(r, outcome)

\* Reminder runs of one user's tasks with D1 failing at verify-task and at
\* send-reminder, tasks completed and deleted under them, and sleeps of a
\* day.
NextTermination ==
  \/ \E dueDate \in {Absent, NearDueDate} : OtherActorCreatesTask("alice", dueDate)
  \/ \E taskId \in TaskIds : OtherActorCompletesTask("alice", taskId)
  \/ \E taskId \in TaskIds : OtherActorDeletesTask("alice", taskId)
  \/ \E taskId \in TaskIds, dueDate \in {Absent, FarDueDate} :
       /\ getTask(tasks, "alice", taskId)
       /\ createInstance([userId |-> "alice", taskId |-> taskId, action |-> "reminder", dueDate |-> dueDate])
  \/ \E r \in 1..MaxRuns : EngineStep(r)
  \/ Advance

\* The engine goes on executing every instance it holds, and the time a
\* sleeping instance waits for does pass.
SpecTermination ==
  /\ InitChat
  /\ [][NextTermination]_vars
  /\ \A r \in 1..MaxRuns : WF_vars(EngineStep(r))
  /\ WF_vars(Advance)

\* C40: every workflow run eventually reaches a terminal outcome (its run()
\* returned, or the engine gave the step up after its retries): no run stays
\* forever queued or at verify-task, calculate-reminder-time, the sleep,
\* recheck-task-status or send-reminder.
C40_EveryRunEnds ==
  \A r \in 1..MaxRuns : (r \in Runs) ~> (r \in Runs /\ runs[r].pc \in TerminalPcs)

\* A run that slept, was woken, wrote its reminder and returned.
C40_Witness ==
  \E r \in Runs :
    /\ runs[r].pc = "complete"
    /\ runs[r].wakeAt # Null
    /\ runs[r].result[1].success
    /\ Len(log) > 0
====
